---- MODULE Spec2Model ----
(***************************************************************************)
(* Model of uiohook-rs: the dispatch supervisor of src/hook/global.rs      *)
(* (hook_start, hook_start_blocking, hook_stop, HookHandle, the control    *)
(* thread and the hook thread) and the posting API of src/hook/event.rs    *)
(* (post_event, EventPair, PairEventIterator).                             *)
(*                                                                         *)
(* The native engine (libuiohook) is reached only through the ffi calls    *)
(* hook_run, hook_stop, hook_set_dispatch_proc and hook_post_event; its    *)
(* behaviour is modelled from its contract.                                *)
(***************************************************************************)
EXTENDS Integers, Sequences, FiniteSets, TLC

(* ------------------------------- bounds -------------------------------- *)

\* start/stop cycles begun in one behaviour
MaxCycles == 2
\* input events the native engine dispatches in one behaviour
MaxInputs == 1

\* the application threads that call the API
\* posting calls made in one behaviour
MaxCalls == 1

\* register_hook calls made in one behaviour
MaxHooks == 2
\* events whose decoding is followed in one behaviour
MaxDecoded == 2
\* posting calls one client makes while the pipeline runs
MaxPosts == 1
\* register_hook calls made in one behaviour of the registry alone
MaxIssued == 5

\* the width of a HookId in bits, scaled down from the 128 of u128
HookIdBits == 2

Clients == {"t1", "t2"}
\* the values of a HookId
HookIdModulus == 2 ^ HookIdBits
HookIds == 0..(HookIdModulus - 1)
\* the Hook objects of the application
HookObjs == {"h1", "h2"}
Cycles == 1..MaxCycles
CallIds == 1..MaxCalls

(* ------------------------------- events -------------------------------- *)

\* EventKind, in the order of the native event types
EventKinds ==
    <<"Enabled", "Disabled", "KeyTyped", "KeyPressed", "KeyReleased",
      "MouseClicked", "MousePressed", "MouseReleased", "MouseMoved",
      "MouseDragged", "MouseWheel">>

\* a HookEvent: its kind and the key (or button) of its payload
HookEvent(kind, key) == [kind |-> kind, key |-> key]

NoEvent == HookEvent("none", 0)
ControlKinds == {"Enabled", "Disabled"}
EnabledEvent == HookEvent("Enabled", 0)
DisabledEvent == HookEvent("Disabled", 0)

(* ----------------------------- HookError ------------------------------- *)

\* Result<(), HookError> of the native run() and stop() primitives
OkResult == "Ok"
RunError == "Err(native run)"
StopError == "Err(native stop)"

(* ------------------------------- state --------------------------------- *)

VARIABLES
    RUNNING,      \* static RUNNING: AtomicBool
    ready,        \* the bool guarded by the ENABLED mutex
    bus,          \* EVENT_BUS: the events sent and not yet received
    installs,     \* calls of hook_set_dispatch_proc so far
    nCycles,      \* cycles begun so far; a cycle's number names its threads
    ctl,          \* ctl[k]: position of the control thread of cycle k
    ctlOwner,     \* ctlOwner[k]: "spawned", or the client that runs the loop
    cur,          \* cur[k]: the event the control loop of cycle k holds
    received,     \* received[k]: control kinds the loop of cycle k dequeued
    delivered,    \* delivered[k]: control kinds it fanned out to the hooks
    hook,         \* hook[k]: position of the hook thread of cycle k
    stopReq,      \* the native engine was asked to stop
    inputs,       \* input events dispatched in the current engine run
    pc,           \* pc[c]: position of client c
    cyc,          \* cyc[c]: the cycle client c's current call is about
    ret,          \* the last value an API call returned
    handles,      \* HookHandles returned and not yet consumed
    SYNTHETIC,    \* native::SYNTHETIC: the native type last posted, or 0
    POST_MUTEX,   \* native::post_event::POST_MUTEX is locked
    posted,       \* the events handed to ffi::hook_post_event, in order
    calls,        \* the posting calls made: operation, input, result
    prog,         \* prog[c]: what is left of client c's posting call
    callOf,       \* callOf[c]: the posting call client c is in
    ppc,          \* ppc[c]: position of client c in its posting call
    wpc,          \* wpc[n]: position of the thread spawned by call n
    wprog,        \* wprog[n]: what that thread has left to do
    target_os,    \* the target_os the crate was built for
    RESERVE_CALLBACK, \* the filter in the RESERVE_CALLBACK slot, or "None"
    HOOKS,        \* the HookIds in the HOOKS registry
    HOOK_ID,      \* register_boxed_hook::HOOK_ID: the id last issued
    cb,           \* the dispatch callback in progress on the hook thread
    nDispatched,  \* posted events the engine has dispatched back
    sent,         \* history: the events the callback sent on the bus
    seen,         \* seen[id]: the events observer id was invoked with
    visited,      \* observers invoked in the fan-out in progress
    fresh,        \* observers registered during the fan-out in progress
    removedAt,    \* removedAt[id]: callbacks run when id was unregistered
    issued,       \* history: the ids register_boxed_hook returned, in order
    regBudget,    \* register_hook calls left in this behaviour
    regRet,       \* what the last registry call returned, unless the
                  \* callers discard what the registry returns
    hookObj,      \* hookObj[h]: the fields hook and id of Hook object h
    fnArg,        \* the argument a conversion is applied to
    fnRes,        \* the result of the conversion, or "none"
    panicked,     \* panicked[k]: the payload the control thread of cycle k
                  \* panicked with, or "none"
    BASE_TIMESTAMP, \* native::BASE_TIMESTAMP: the OnceCell, empty or set
    decoded,      \* history: the events whose time set_timestamp has set
    shardOf,      \* shardOf[id]: the shard of HOOKS the key id hashes to
    inCallback    \* the observer whose callback the fan-out is inside, or -1

lifeVars ==
    <<RUNNING, ready, bus, installs, nCycles, ctl, ctlOwner, cur, received,
      delivered, hook, stopReq, inputs, pc, cyc, ret, handles>>

postVars ==
    <<SYNTHETIC, POST_MUTEX, posted, calls, prog, callOf, ppc, wpc, wprog>>

bridgeVars ==
    <<target_os, RESERVE_CALLBACK, HOOKS, HOOK_ID, cb, nDispatched, sent, seen,
      visited, fresh, removedAt>>

regVars == <<issued, regBudget, regRet, hookObj>>

evalVars == <<fnArg, fnRes>>

faultVars == <<panicked>>

clockVars == <<BASE_TIMESTAMP, decoded>>

lockVars == <<shardOf, inCallback>>

extVars == <<regVars, evalVars, faultVars, clockVars, lockVars>>

vars == <<lifeVars, postVars, bridgeVars, extVars>>

\* what a registry call returned: the call, its id and the value
RegRet(op, id, v) == [op |-> op, id |-> id, val |-> v]
NoRegRet == RegRet("none", 0, "none")
\* the callers discard the values the registry calls return
Discarded == RegRet("discarded", 0, "none")
\* the value v is returned to the caller
Returns(v) == IF regRet = Discarded THEN Discarded ELSE v

\* a Hook as Hook::new and the other constructors build it: the callback is
\* held and no id was assigned (the Option<HookId> is the set of its values)
NewHook == [hook |-> "Some", id |-> {}, dropped |-> FALSE]

\* no registry call was made and no Hook was registered; n ids were issued
\* by register_hook calls so far
RegistryAfter(n) ==
    /\ issued = [i \in 1..n |-> i]
    /\ regRet = NoRegRet
    /\ hookObj = [h \in HookObjs |-> NewHook]

\* no conversion is being evaluated
NoEval == fnArg = "none" /\ fnRes = "none"

\* no control thread panicked
NoPanic == panicked = [k \in Cycles |-> "none"]

\* no event was decoded yet in this process
NoClock == BASE_TIMESTAMP = {} /\ decoded = <<>>

\* the fan-out is inside no callback; the keys hash to the first shard
NoLocks == inCallback = -1 /\ shardOf = [id \in HookIds |-> 0]

\* no dispatch callback is in progress
NoCallback == [stage |-> "idle"]

NoReturn == [op |-> "none", cycle |-> 0, val |-> "none"]
Return(op, k, v) == [op |-> op, cycle |-> k, val |-> v]

\* the statics as initialised and no thread started
Statics ==
    /\ RUNNING = FALSE
    /\ ready = FALSE
    /\ bus = <<>>
    /\ installs = 0
    /\ nCycles = 0
    /\ ctl = [k \in Cycles |-> "none"]
    /\ ctlOwner = [k \in Cycles |-> "none"]
    /\ cur = [k \in Cycles |-> NoEvent]
    /\ received = [k \in Cycles |-> {}]
    /\ delivered = [k \in Cycles |-> {}]
    /\ hook = [k \in Cycles |-> "none"]
    /\ stopReq = FALSE
    /\ inputs = 0
    /\ pc = [c \in Clients |-> "idle"]
    /\ cyc = [c \in Clients |-> 0]
    /\ ret = NoReturn
    /\ handles = {}
    /\ SYNTHETIC = 0
    /\ POST_MUTEX = FALSE
    /\ posted = <<>>
    /\ calls = <<>>
    /\ prog = [c \in Clients |-> <<>>]
    /\ callOf = [c \in Clients |-> 0]
    /\ ppc = [c \in Clients |-> "idle"]
    /\ wpc = [n \in CallIds |-> "none"]
    /\ wprog = [n \in CallIds |-> <<>>]
    /\ target_os = "linux"
    /\ RESERVE_CALLBACK = "None"
    /\ HOOKS = {}
    /\ HOOK_ID = 0
    /\ cb = NoCallback
    /\ nDispatched = 0
    /\ sent = <<>>
    /\ seen = [id \in HookIds |-> <<>>]
    /\ visited = {}
    /\ fresh = {}
    /\ removedAt = [id \in HookIds |-> -1]
    /\ RegistryAfter(0)
    /\ NoPanic
    /\ NoClock
    /\ NoLocks

\* the same, with no conversion under evaluation
Constructed == Statics /\ NoEval

\* the state after construction; at most MaxHooks register_hook calls follow
Init == Constructed /\ regBudget = MaxHooks

\* client c is in no API call
Idle(c) == pc[c] = "idle" /\ ppc[c] = "idle"

(* -------------------------- native dispatch ---------------------------- *)

\* mutant: the bus hands out the newest event first
event_handler_Front(e) ==
    bus' = IF installs > 0 THEN <<e>> \o bus ELSE bus

\* mutant: the bus is a channel of capacity one, and send waits while it is
\* full
event_handler_Bounded(e) ==
    /\ Len(bus) < 1
    /\ bus' = IF installs > 0 THEN Append(bus, e) ELSE bus

\* native::event_handler: the dispatch callback decodes the native record and
\* sends the event on the unbounded bus. Without an installed callback the
\* native engine has nothing to call.
event_handler(e) ==
    bus' = IF installs > 0 THEN Append(bus, e) ELSE bus

(* ---------------------------- hook thread ------------------------------ *)

\* hook_thread_main enters native::hook_start: ffi::hook_run either fails to
\* install the hook or starts the engine.
HookRunEnter(k) ==
    /\ hook[k] = "spawned"
    /\ \E outcome \in {"starting", "failed"} :
          hook' = [hook EXCEPT ![k] = outcome]
    /\ UNCHANGED <<RUNNING, ready, bus, installs, nCycles, ctl, ctlOwner, cur,
                   received, delivered, stopReq, inputs, pc, cyc, ret,
                   handles, postVars,
                   bridgeVars>>
    /\ UNCHANGED extVars

\* the engine confirms activation: it dispatches EVENT_HOOK_ENABLED
NativeEnabled(k) ==
    /\ hook[k] = "starting"
    /\ hook' = [hook EXCEPT ![k] = "running"]
    /\ event_handler(EnabledEvent)
    /\ UNCHANGED <<RUNNING, ready, installs, nCycles, ctl, ctlOwner, cur,
                   received, delivered, stopReq, inputs, pc, cyc, ret,
                   handles, postVars,
                   bridgeVars>>
    /\ UNCHANGED extVars

\* the running engine dispatches an input event of the user
NativeInput(k) ==
    /\ hook[k] = "running"
    /\ inputs < MaxInputs
    /\ inputs' = inputs + 1
    /\ event_handler(HookEvent("KeyPressed", 1))
    /\ UNCHANGED <<RUNNING, ready, installs, nCycles, ctl, ctlOwner, cur,
                   received, delivered, hook, stopReq, pc, cyc, ret, handles,
                   postVars,
                   bridgeVars>>
    /\ UNCHANGED extVars

\* the engine honours a stop request: it dispatches EVENT_HOOK_DISABLED as
\* its last event
NativeDisabled(k) ==
    /\ hook[k] = "running"
    /\ stopReq
    /\ stopReq' = FALSE
    /\ hook' = [hook EXCEPT ![k] = "stopped"]
    /\ event_handler(DisabledEvent)
    /\ inputs' = 0
    /\ UNCHANGED <<RUNNING, ready, installs, nCycles, ctl, ctlOwner, cur,
                   received, delivered, pc, cyc, ret, handles, postVars,
                   bridgeVars>>
    /\ UNCHANGED extVars

\* ffi::hook_run returns UIOHOOK_SUCCESS and hook_thread_main returns Ok(())
HookRunReturn(k) ==
    /\ hook[k] = "stopped"
    /\ hook' = [hook EXCEPT ![k] = "done_ok"]
    /\ UNCHANGED <<RUNNING, ready, bus, installs, nCycles, ctl, ctlOwner, cur,
                   received, delivered, stopReq, inputs, pc, cyc, ret,
                   handles, postVars,
                   bridgeVars>>
    /\ UNCHANGED extVars

\* mutant: the failing hook thread returns the error without sending Disabled
HookRunFailSilent(k) ==
    /\ hook[k] = "failed"
    /\ hook' = [hook EXCEPT ![k] = "done_err"]
    /\ UNCHANGED <<RUNNING, ready, bus, installs, nCycles, ctl, ctlOwner, cur,
                   received, delivered, stopReq, inputs, pc, cyc, ret,
                   handles, postVars,
                   bridgeVars>>
    /\ UNCHANGED extVars

\* hook_thread_main when native::hook_start returned Err: it sends a Disabled
\* event on the bus itself and returns the error
HookRunFail(k) ==
    /\ hook[k] = "failed"
    /\ bus' = Append(bus, DisabledEvent)
    /\ hook' = [hook EXCEPT ![k] = "done_err"]
    /\ UNCHANGED <<RUNNING, ready, installs, nCycles, ctl, ctlOwner, cur,
                   received, delivered, stopReq, inputs, pc, cyc, ret,
                   handles, postVars,
                   bridgeVars>>
    /\ UNCHANGED extVars

\* what an observer can panic with: a &'static str message, or anything else
PanicPayloads == {"str", "other"}

\* HookError::Unknown with its message, carrying the payload
UnknownMessage == "Err(Unknown(panic message, payload))"
UnknownNoInfo == "Err(Unknown(no panic info, payload))"

\* mutant: the message of the payload is not looked at
HookError_from_panic_NoInfo(payload) == UnknownNoInfo

\* impl From<Box<dyn Any + Send>> for HookError: the message is the payload
\* when it is a &'static str, "no panic info" otherwise
HookError_from_panic(payload) ==
    IF payload = "str" THEN UnknownMessage ELSE UnknownNoInfo

HookDone(k) == hook[k] \in {"done_ok", "done_err"}
\* the value a join of the hook thread of cycle k yields
HookResult(k) == IF hook[k] = "done_ok" THEN OkResult ELSE RunError

(* --------------------------- control thread ---------------------------- *)

\* control_thread_main up to the loop: install the dispatch callback and
\* spawn the hook thread
ControlInit(k) ==
    /\ ctl[k] = "init"
    /\ installs' = installs + 1
    /\ hook' = [hook EXCEPT ![k] = "spawned"]
    /\ ctl' = [ctl EXCEPT ![k] = "recv"]
    /\ UNCHANGED <<RUNNING, ready, bus, nCycles, ctlOwner, cur, received,
                   delivered, stopReq, inputs, pc, cyc, ret, handles,
                   postVars,
                   bridgeVars>>
    /\ UNCHANGED extVars

\* receiver.recv() and the Enabled branch: set *ready and notify_all, which
\* wakes every hook_start call waiting on the condition variable
ControlRecv(k) ==
    /\ ctl[k] = "recv"
    /\ bus # <<>>
    /\ bus' = Tail(bus)
    /\ cur' = [cur EXCEPT ![k] = Head(bus)]
    /\ received' = [received EXCEPT
                       ![k] = @ \cup ({Head(bus).kind} \cap ControlKinds)]
    /\ ctl' = [ctl EXCEPT ![k] = "fanout"]
    /\ IF Head(bus).kind = "Enabled"
          THEN /\ ready' = TRUE
               /\ pc' = [c \in Clients |->
                            IF pc[c] = "hs_wait" THEN "hs_woken" ELSE pc[c]]
          ELSE UNCHANGED <<ready, pc>>
    /\ UNCHANGED <<RUNNING, installs, nCycles, ctlOwner, delivered, hook,
                   stopReq, inputs, cyc, ret, handles, postVars,
                   bridgeVars>>
    /\ UNCHANGED extVars

\* the fan-out "for hook in HOOKS.iter() { hook.value()(&event) }": the
\* iteration reaches an observer it has not visited yet and invokes it
ControlInvoke(k) ==
    /\ ctl[k] = "fanout"
    /\ \E id \in HOOKS \ visited :
          /\ seen' = [seen EXCEPT ![id] = Append(@, cur[k].seq)]
          /\ visited' = visited \cup {id}
    /\ UNCHANGED <<lifeVars, postVars, target_os, RESERVE_CALLBACK, HOOKS,
                   HOOK_ID, cb, nDispatched, sent, fresh, removedAt>>
    /\ UNCHANGED extVars

\* the observer the iteration reached panics: the control thread unwinds out
\* of control_thread_main with the payload; the hook thread's handle, a
\* local of the function, is dropped, and RUNNING is not stored
ControlInvokePanic(k) ==
    /\ ctl[k] = "fanout"
    /\ \E id \in HOOKS \ visited :
          /\ seen' = [seen EXCEPT ![id] = Append(@, cur[k].seq)]
          /\ visited' = visited \cup {id}
    /\ \E p \in PanicPayloads : panicked' = [panicked EXCEPT ![k] = p]
    /\ ctl' = [ctl EXCEPT ![k] = "panicked"]
    /\ UNCHANGED <<RUNNING, ready, bus, installs, nCycles, ctlOwner, cur,
                   received, delivered, hook, stopReq, inputs, pc, cyc, ret,
                   handles, postVars, target_os, RESERVE_CALLBACK, HOOKS,
                   HOOK_ID, cb, nDispatched, sent, fresh, removedAt, regVars,
                   evalVars, clockVars, lockVars>>

\* mutant: the loop is left after the first event, whatever its kind
ControlFanOutBreak(k) ==
    /\ ctl[k] = "fanout"
    /\ (HOOKS \ fresh) \subseteq visited
    /\ delivered' = [delivered EXCEPT
                        ![k] = @ \cup ({cur[k].kind} \cap ControlKinds)]
    /\ cur' = [cur EXCEPT ![k] = NoEvent]
    /\ ctl' = [ctl EXCEPT ![k] = "exit"]
    /\ visited' = {}
    /\ fresh' = {}
    /\ UNCHANGED <<RUNNING, ready, bus, installs, nCycles, ctlOwner, received,
                   hook, stopReq, inputs, pc, cyc, ret, handles, postVars,
                   target_os, RESERVE_CALLBACK, HOOKS, HOOK_ID, cb,
                   nDispatched, sent, seen, removedAt>>
    /\ UNCHANGED extVars

\* mutant: the iteration over HOOKS may stop before it reached every observer
ControlFanOutEarly(k) ==
    /\ ctl[k] = "fanout"
    /\ delivered' = [delivered EXCEPT
                        ![k] = @ \cup ({cur[k].kind} \cap ControlKinds)]
    /\ cur' = [cur EXCEPT ![k] = NoEvent]
    /\ ctl' = [ctl EXCEPT ![k] =
                  IF cur[k].kind = "Disabled" THEN "exit" ELSE "recv"]
    /\ visited' = {}
    /\ fresh' = {}
    /\ UNCHANGED <<RUNNING, ready, bus, installs, nCycles, ctlOwner, received,
                   hook, stopReq, inputs, pc, cyc, ret, handles, postVars,
                   target_os, RESERVE_CALLBACK, HOOKS, HOOK_ID, cb,
                   nDispatched, sent, seen, removedAt>>
    /\ UNCHANGED extVars

\* the end of the fan-out, then the Disabled test: break out of the loop on
\* Disabled, receive again otherwise. The iteration over HOOKS ends when it
\* visited every observer that was in the registry throughout; one that was
\* registered meanwhile may or may not have been reached.
ControlFanOut(k) ==
    /\ ctl[k] = "fanout"
    /\ (HOOKS \ fresh) \subseteq visited
    /\ delivered' = [delivered EXCEPT
                        ![k] = @ \cup ({cur[k].kind} \cap ControlKinds)]
    /\ cur' = [cur EXCEPT ![k] = NoEvent]
    /\ ctl' = [ctl EXCEPT ![k] =
                  IF cur[k].kind = "Disabled" THEN "exit" ELSE "recv"]
    /\ visited' = {}
    /\ fresh' = {}
    /\ UNCHANGED <<RUNNING, ready, bus, installs, nCycles, ctlOwner, received,
                   hook, stopReq, inputs, pc, cyc, ret, handles, postVars,
                   target_os, RESERVE_CALLBACK, HOOKS, HOOK_ID, cb,
                   nDispatched, sent, seen, removedAt>>
    /\ UNCHANGED extVars

\* mutant: the offset is computed anew for every event
set_timestamp_Recompute(k, native_time, clock) ==
    /\ BASE_TIMESTAMP' = {clock - native_time}
    /\ decoded' = Append(decoded, [cycle |-> k, native |-> native_time,
                                   clock |-> clock, time |-> clock])

\* native::set_timestamp on the hook thread of cycle k, for a record of the
\* given native time, SystemTime::now() reading clock if it is called:
\* BASE_TIMESTAMP.get_or_init(|| now - time) + time
set_timestamp(k, native_time, clock) ==
    LET base == IF BASE_TIMESTAMP = {}
                   THEN clock - native_time
                   ELSE CHOOSE b \in BASE_TIMESTAMP : TRUE
    IN  /\ BASE_TIMESTAMP' = {base}
        /\ decoded' = Append(decoded, [cycle |-> k, native |-> native_time,
                                       clock |-> clock,
                                       time |-> base + native_time])

\* mutant: the control thread returns without clearing RUNNING
ControlExitKeepRunning(k) ==
    /\ ctl[k] = "exit"
    /\ ctl' = [ctl EXCEPT ![k] = "done"]
    /\ UNCHANGED <<RUNNING, ready, bus, installs, nCycles, ctlOwner, cur,
                   received, delivered, hook, stopReq, inputs, pc, cyc, ret,
                   handles, postVars,
                   bridgeVars>>
    /\ UNCHANGED extVars

\* after the loop: RUNNING.store(false) and return the hook thread's handle
ControlExit(k) ==
    /\ ctl[k] = "exit"
    /\ RUNNING' = FALSE
    /\ ctl' = [ctl EXCEPT ![k] = "done"]
    /\ UNCHANGED <<ready, bus, installs, nCycles, ctlOwner, cur, received,
                   delivered, hook, stopReq, inputs, pc, cyc, ret, handles,
                   postVars,
                   bridgeVars>>
    /\ UNCHANGED extVars


(* ------------------------------ clients -------------------------------- *)

\* mutant: RUNNING is set without looking at the value it held
HookStartNoCas(c) ==
    /\ Idle(c)
    /\ nCycles < MaxCycles
    /\ RUNNING' = TRUE
    /\ nCycles' = nCycles + 1
    /\ ctl' = [ctl EXCEPT ![nCycles + 1] = "init"]
    /\ ctlOwner' = [ctlOwner EXCEPT ![nCycles + 1] = "spawned"]
    /\ pc' = [pc EXCEPT ![c] = "hs_lock"]
    /\ cyc' = [cyc EXCEPT ![c] = nCycles + 1]
    /\ UNCHANGED <<ready, bus, installs, cur, received, delivered, hook,
                   stopReq, inputs, handles, ret, postVars,
                   bridgeVars>>
    /\ UNCHANGED extVars

\* hook_start, the compare_exchange on RUNNING: on Err return None; on Ok
\* spawn the control thread and go on to lock the ENABLED mutex
HookStart(c) ==
    /\ Idle(c)
    /\ IF RUNNING
          THEN /\ ret' = Return("hook_start", 0, "None")
               /\ UNCHANGED <<RUNNING, nCycles, ctl, ctlOwner, pc, cyc>>
          ELSE /\ nCycles < MaxCycles
               /\ RUNNING' = TRUE
               /\ nCycles' = nCycles + 1
               /\ ctl' = [ctl EXCEPT ![nCycles + 1] = "init"]
               /\ ctlOwner' = [ctlOwner EXCEPT ![nCycles + 1] = "spawned"]
               /\ pc' = [pc EXCEPT ![c] = "hs_lock"]
               /\ cyc' = [cyc EXCEPT ![c] = nCycles + 1]
               /\ ret' = ret
    /\ UNCHANGED <<ready, bus, installs, cur, received, delivered, hook,
                   stopReq, inputs, handles, postVars,
                   bridgeVars>>
    /\ UNCHANGED extVars

\* hook_start with the ENABLED mutex locked: if !*ready, wait on the condition
\* variable (which releases the mutex); otherwise reset *ready and return the
\* handle
HookStartLocked(c) ==
    /\ pc[c] = "hs_lock"
    /\ IF ready
          THEN /\ ready' = FALSE
               /\ pc' = [pc EXCEPT ![c] = "idle"]
               /\ cyc' = [cyc EXCEPT ![c] = 0]
               /\ ret' = Return("hook_start", cyc[c], "Some")
               /\ handles' = handles \cup {cyc[c]}
          ELSE /\ pc' = [pc EXCEPT ![c] = "hs_wait"]
               /\ UNCHANGED <<ready, cyc, ret, handles>>
    /\ UNCHANGED <<RUNNING, bus, installs, nCycles, ctl, ctlOwner, cur,
                   received, delivered, hook, stopReq, inputs, postVars,
                   bridgeVars>>
    /\ UNCHANGED extVars

\* hook_start after cond.wait returned (the mutex is locked again): reset
\* *ready and return the handle
HookStartWoken(c) ==
    /\ pc[c] = "hs_woken"
    /\ ready' = FALSE
    /\ pc' = [pc EXCEPT ![c] = "idle"]
    /\ cyc' = [cyc EXCEPT ![c] = 0]
    /\ ret' = Return("hook_start", cyc[c], "Some")
    /\ handles' = handles \cup {cyc[c]}
    /\ UNCHANGED <<RUNNING, bus, installs, nCycles, ctl, ctlOwner, cur,
                   received, delivered, hook, stopReq, inputs, postVars,
                   bridgeVars>>
    /\ UNCHANGED extVars

\* hook_start_blocking, the compare_exchange on RUNNING: on Err return Ok(());
\* on Ok run control_thread_main on the calling thread
HookStartBlocking(c) ==
    /\ Idle(c)
    /\ IF RUNNING
          THEN /\ ret' = Return("hook_start_blocking", 0, OkResult)
               /\ UNCHANGED <<RUNNING, nCycles, ctl, ctlOwner, pc, cyc>>
          ELSE /\ nCycles < MaxCycles
               /\ RUNNING' = TRUE
               /\ nCycles' = nCycles + 1
               /\ ctl' = [ctl EXCEPT ![nCycles + 1] = "init"]
               /\ ctlOwner' = [ctlOwner EXCEPT ![nCycles + 1] = c]
               /\ pc' = [pc EXCEPT ![c] = "blk"]
               /\ cyc' = [cyc EXCEPT ![c] = nCycles + 1]
               /\ ret' = ret
    /\ UNCHANGED <<ready, bus, installs, cur, received, delivered, hook,
                   stopReq, inputs, handles, postVars,
                   bridgeVars>>
    /\ UNCHANGED extVars

\* hook_start_blocking after control_thread_main returned: join the hook
\* thread and return its result
HookStartBlockingJoin(c) ==
    /\ pc[c] = "blk"
    /\ ctl[cyc[c]] = "done"
    /\ HookDone(cyc[c])
    /\ pc' = [pc EXCEPT ![c] = "idle"]
    /\ cyc' = [cyc EXCEPT ![c] = 0]
    /\ ret' = Return("hook_start_blocking", cyc[c], HookResult(cyc[c]))
    /\ UNCHANGED <<RUNNING, ready, bus, installs, nCycles, ctl, ctlOwner, cur,
                   received, delivered, hook, stopReq, inputs, handles,
                   postVars,
                   bridgeVars>>
    /\ UNCHANGED extVars

\* ffi::hook_stop: the engine accepts the request while it runs, and fails
\* when no hook is installed; while it is starting either may happen
NativeStopOutcomes ==
    IF \E k \in Cycles : hook[k] = "running" THEN {OkResult}
    ELSE IF \E k \in Cycles : hook[k] = "starting" THEN {OkResult, StopError}
    ELSE {StopError}

\* mutant: a successful hook_stop also clears the RUNNING flag
HookStopClearsRunning(c) ==
    /\ Idle(c)
    /\ \E r \in NativeStopOutcomes :
          /\ stopReq' = (stopReq \/ r = OkResult)
          /\ ret' = Return("hook_stop", 0, r)
          /\ RUNNING' = (RUNNING /\ r # OkResult)
    /\ UNCHANGED <<ready, bus, installs, nCycles, ctl, ctlOwner, cur,
                   received, delivered, hook, inputs, pc, cyc, handles,
                   postVars,
                   bridgeVars>>
    /\ UNCHANGED extVars

\* hook_stop: native::hook_stop and nothing else
HookStop(c) ==
    /\ Idle(c)
    /\ \E r \in NativeStopOutcomes :
          /\ stopReq' = (stopReq \/ r = OkResult)
          /\ ret' = Return("hook_stop", 0, r)
    /\ UNCHANGED <<RUNNING, ready, bus, installs, nCycles, ctl, ctlOwner, cur,
                   received, delivered, hook, inputs, pc, cyc, handles,
                   postVars,
                   bridgeVars>>
    /\ UNCHANGED extVars

\* HookHandle::wait is called: the handle is consumed
HandleWait(c, h) ==
    /\ Idle(c)
    /\ h \in handles
    /\ handles' = handles \ {h}
    /\ pc' = [pc EXCEPT ![c] = "wait_join"]
    /\ cyc' = [cyc EXCEPT ![c] = h]
    /\ UNCHANGED <<RUNNING, ready, bus, installs, nCycles, ctl, ctlOwner, cur,
                   received, delivered, hook, stopReq, inputs, ret, postVars,
                   bridgeVars>>
    /\ UNCHANGED extVars

\* HookHandle::wait: join the control thread; if it returned, join the hook
\* thread whose handle it returned and return that thread's result; if it
\* panicked, return the panic converted into a HookError at once
HandleJoin(c) ==
    /\ pc[c] \in {"wait_join", "stop_join"}
    /\ \/ ctl[cyc[c]] = "done" /\ HookDone(cyc[c])
       \/ ctl[cyc[c]] = "panicked"
    /\ pc' = [pc EXCEPT ![c] = "idle"]
    /\ cyc' = [cyc EXCEPT ![c] = 0]
    /\ ret' = Return(IF pc[c] = "wait_join" THEN "wait" ELSE "stop",
                     cyc[c],
                     IF ctl[cyc[c]] = "panicked"
                        THEN HookError_from_panic(panicked[cyc[c]])
                        ELSE HookResult(cyc[c]))
    /\ UNCHANGED <<RUNNING, ready, bus, installs, nCycles, ctl, ctlOwner, cur,
                   received, delivered, hook, stopReq, inputs, handles,
                   postVars,
                   bridgeVars>>
    /\ UNCHANGED extVars

\* mutant: the result of hook_stop is ignored and the threads are joined
HandleStopAlwaysWait(c, h) ==
    /\ Idle(c)
    /\ h \in handles
    /\ handles' = handles \ {h}
    /\ \E r \in NativeStopOutcomes :
          /\ stopReq' = (stopReq \/ r = OkResult)
          /\ pc' = [pc EXCEPT ![c] = "stop_join"]
          /\ cyc' = [cyc EXCEPT ![c] = h]
          /\ ret' = ret
    /\ UNCHANGED <<RUNNING, ready, bus, installs, nCycles, ctl, ctlOwner, cur,
                   received, delivered, hook, inputs, postVars,
                   bridgeVars>>
    /\ UNCHANGED extVars

\* HookHandle::stop: hook_stop(); on Err return it (the handle is dropped), on
\* Ok go on as wait
HandleStop(c, h) ==
    /\ Idle(c)
    /\ h \in handles
    /\ handles' = handles \ {h}
    /\ \E r \in NativeStopOutcomes :
          /\ stopReq' = (stopReq \/ r = OkResult)
          /\ IF r = OkResult
                THEN /\ pc' = [pc EXCEPT ![c] = "stop_join"]
                     /\ cyc' = [cyc EXCEPT ![c] = h]
                     /\ ret' = ret
                ELSE /\ UNCHANGED <<pc, cyc>>
                     /\ ret' = Return("stop", h, r)
    /\ UNCHANGED <<RUNNING, ready, bus, installs, nCycles, ctl, ctlOwner, cur,
                   received, delivered, hook, inputs, postVars,
                   bridgeVars>>
    /\ UNCHANGED extVars

(* ------------------------------ behaviour ------------------------------ *)

ThreadStep(k) ==
    \/ ControlInit(k)
    \/ ControlRecv(k)
    \/ ControlFanOut(k)
    \/ ControlExit(k)
    \/ HookRunEnter(k)
    \/ NativeEnabled(k)
    \/ NativeInput(k)
    \/ NativeDisabled(k)
    \/ HookRunReturn(k)
    \/ HookRunFail(k)

ClientStep(c) ==
    \/ HookStart(c)
    \/ HookStartLocked(c)
    \/ HookStartWoken(c)
    \/ HookStartBlocking(c)
    \/ HookStartBlockingJoin(c)
    \/ HookStop(c)
    \/ HandleJoin(c)
    \/ \E h \in Cycles : HandleWait(c, h) \/ HandleStop(c, h)

Next ==
    \/ \E k \in Cycles : ThreadStep(k)
    \/ \E c \in Clients : ClientStep(c)

Spec == Init /\ [][Next]_vars


(* ------------------------- lifecycle properties ------------------------ *)

\* control threads between their spawn and their store of RUNNING = false
AliveControl == {k \in Cycles : ctl[k] \in {"init", "recv", "fanout", "exit"}}

\* a stop or wait on the handle of the latest cycle returned Ok
StoppedOk ==
    /\ ret.op \in {"stop", "wait"}
    /\ ret.val = OkResult
    /\ ret.cycle = nCycles

\* C1: hook_start returns Some(handle) only after the control thread spawned
\* by that call has received the Enabled event of its cycle, whatever cycles
\* completed before.
C1_StartReturnsAfterEnabled ==
    (ret.op = "hook_start" /\ ret.val = "Some")
        => "Enabled" \in received[ret.cycle]

\* C2: a hook_start call made while RUNNING is set returns None, spawns no
\* thread and does not install the dispatch callback again; at most one
\* control thread is alive at any time.
C2_StartWhileRunning ==
    /\ [][\A c \in Clients :
            (RUNNING /\ HookStart(c)) =>
                /\ ret' = Return("hook_start", 0, "None")
                /\ UNCHANGED <<RUNNING, nCycles, ctl, ctlOwner, hook,
                               installs, bus, handles>>]_vars
    /\ [](Cardinality(AliveControl) <= 1)

C2_Witness ==
    /\ RUNNING
    /\ ret = Return("hook_start", 0, "None")
    /\ \E k \in Cycles : ctl[k] \in {"recv", "fanout"}

\* C3: when the native run() fails in a cycle begun by hook_start, the failure
\* is surfaced: hook_start returns the handle (whose wait yields the error), so
\* no hook_start call is left waiting on the condition variable of a cycle
\* whose control and hook threads have both finished.
C3_RunFailureSurfaced ==
    \A c \in Clients :
        pc[c] = "hs_wait" =>
            ~(ctl[cyc[c]] = "done" /\ hook[cyc[c]] = "done_err")

\* C4: when the native run() fails in a cycle begun by hook_start_blocking,
\* the hook thread enqueues Disabled, so the control loop is never left
\* waiting on an empty bus; the loop receives it and exits, and the call
\* returns Err with the native error, with RUNNING false.
C4_BlockingRunFailure ==
    \A k \in Cycles :
        (ctlOwner[k] \in Clients /\ hook[k] = "done_err") =>
            /\ ctl[k] = "recv" => (bus # <<>> /\ Head(bus) = DisabledEvent)
            /\ ctl[k] = "done" => "Disabled" \in received[k]
            /\ (ret.op = "hook_start_blocking" /\ ret.cycle = k) =>
                  /\ ret.val = RunError
                  /\ ctl[k] = "done"
                  /\ nCycles = k => ~RUNNING

C4_Witness ==
    /\ ret.op = "hook_start_blocking"
    /\ ret.val = RunError
    /\ ret.cycle > 0
    /\ ~RUNNING

\* C5: hook_start_blocking with RUNNING clear runs the control loop on the
\* calling thread and returns only after Disabled was dequeued and fanned
\* out; with RUNNING set it returns Ok(()) at once, spawning nothing and
\* leaving the bus alone.
C5_BlockingStart ==
    /\ [][\A c \in Clients :
            HookStartBlocking(c) =>
                IF RUNNING
                   THEN /\ ret' = Return("hook_start_blocking", 0, OkResult)
                        /\ UNCHANGED <<RUNNING, nCycles, ctl, ctlOwner, hook,
                                       installs, bus, cur, pc>>
                   ELSE /\ pc'[c] = "blk"
                        /\ ctlOwner'[cyc'[c]] = c
                        /\ ctl'[cyc'[c]] = "init"]_vars
    /\ []((ret.op = "hook_start_blocking" /\ ret.cycle > 0) =>
             /\ ctlOwner[ret.cycle] \in Clients
             /\ "Disabled" \in received[ret.cycle]
             /\ "Disabled" \in delivered[ret.cycle])

C5_Witness ==
    /\ ret = Return("hook_start_blocking", MaxCycles, OkResult)
    /\ "Enabled" \in delivered[MaxCycles]

NativeType(kind) == CHOOSE i \in 1..Len(EventKinds) : EventKinds[i] = kind

Err(name) == "Err(" \o name \o ")"

\* mutant: only Enabled is refused
postable_event_EnabledOnly(e) ==
    IF e.kind = "Enabled" THEN Err("Enabled") ELSE OkResult

\* postable_event: Err(PostEventError(kind)) for the two control kinds
postable_event(e) ==
    CASE e.kind = "Enabled" -> Err("Enabled")
      [] e.kind = "Disabled" -> Err("Disabled")
      [] OTHER -> OkResult

EventPair(press, release) == [press |-> press, release |-> release]

\* mutant: only the press event is checked
EventPair_postable_PressOnly(p) == postable_event(p.press)

\* EventPair::postable: postable_event(press)?, then postable_event(release)
EventPair_postable(p) ==
    IF postable_event(p.press) # OkResult
       THEN postable_event(p.press)
       ELSE postable_event(p.release)

\* The steps of a posting call. "post" is a call of global::post_event whose
\* result is propagated ("try", the ? operator and the tail call) or unwrapped
\* ("expect"); "sleep" is std::thread::sleep; "spawn" is std::thread::spawn of
\* a closure with the steps sub; "ret" returns val.
Step(i, ev, chk, val, sub) ==
    [i |-> i, ev |-> ev, chk |-> chk, val |-> val, sub |-> sub]
PostTry(e) == Step("post", e, "try", "", <<>>)
PostExpect(e) == Step("post", e, "expect", "", <<>>)
SleepStep == Step("sleep", NoEvent, "", "", <<>>)
SpawnStep(sub) == Step("spawn", NoEvent, "", "", sub)
RetStep(v) == Step("ret", NoEvent, "", v, <<>>)

\* global::post_event and HookEvent::post
post_event(e) == <<PostTry(e), RetStep(OkResult)>>

\* EventPair::post
EventPair_post(p) ==
    IF EventPair_postable(p) # OkResult
       THEN <<RetStep(EventPair_postable(p))>>
       ELSE <<PostTry(p.press), PostTry(p.release), RetStep(OkResult)>>

\* EventPair::post_delayed
EventPair_post_delayed(p) ==
    IF EventPair_postable(p) # OkResult
       THEN <<RetStep(EventPair_postable(p))>>
       ELSE <<PostTry(p.press), SleepStep, PostTry(p.release),
              RetStep(OkResult)>>

\* mutant: the thread is spawned before the press event is posted
EventPair_post_delayed_async_SpawnFirst(p) ==
    IF EventPair_postable(p) # OkResult
       THEN <<RetStep(EventPair_postable(p))>>
       ELSE <<SpawnStep(<<SleepStep, PostExpect(p.release)>>),
              PostTry(p.press),
              RetStep(OkResult)>>

\* EventPair::post_delayed_async
EventPair_post_delayed_async(p) ==
    IF EventPair_postable(p) # OkResult
       THEN <<RetStep(EventPair_postable(p))>>
       ELSE <<PostTry(p.press),
              SpawnStep(<<SleepStep, PostExpect(p.release)>>),
              RetStep(OkResult)>>

\* the loop "for ep in self { ep.postable()?; ... }": the error of the first
\* pair that is not postable, Ok when there is none
FirstInvalid(pairs) ==
    IF \A i \in 1..Len(pairs) : EventPair_postable(pairs[i]) = OkResult
       THEN OkResult
       ELSE EventPair_postable(
                pairs[CHOOSE i \in 1..Len(pairs) :
                         /\ EventPair_postable(pairs[i]) # OkResult
                         /\ \A j \in 1..(i - 1) :
                               EventPair_postable(pairs[j]) = OkResult])

\* pres_vec and release_vec, each posted with for_each(post_event().expect())
PressSteps(pairs) == [i \in 1..Len(pairs) |-> PostExpect(pairs[i].press)]
ReleaseSteps(pairs) == [i \in 1..Len(pairs) |-> PostExpect(pairs[i].release)]

\* mutant: every pair is checked and posted in turn, as PairEventIterator::post
post_sequence_PairByPair(pairs) ==
    IF pairs = <<>>
       THEN <<RetStep(OkResult)>>
       ELSE LET RECURSIVE each(_)
                each(i) ==
                    IF i > Len(pairs) THEN <<RetStep(OkResult)>>
                    ELSE IF EventPair_postable(pairs[i]) # OkResult
                            THEN <<RetStep(EventPair_postable(pairs[i]))>>
                            ELSE <<PostTry(pairs[i].press),
                                   PostTry(pairs[i].release)>> \o each(i + 1)
            IN each(1)

\* mutant: the release events are posted before the press events
post_delayed_sequence_ReleaseFirst(pairs) ==
    IF FirstInvalid(pairs) # OkResult
       THEN <<RetStep(FirstInvalid(pairs))>>
       ELSE ReleaseSteps(pairs) \o <<SleepStep>> \o PressSteps(pairs)
                \o <<RetStep(OkResult)>>

\* PairEventIterator::post_sequence
post_sequence(pairs) ==
    IF FirstInvalid(pairs) # OkResult
       THEN <<RetStep(FirstInvalid(pairs))>>
       ELSE PressSteps(pairs) \o ReleaseSteps(pairs) \o <<RetStep(OkResult)>>

\* PairEventIterator::post_delayed_sequence
post_delayed_sequence(pairs) ==
    IF FirstInvalid(pairs) # OkResult
       THEN <<RetStep(FirstInvalid(pairs))>>
       ELSE PressSteps(pairs) \o <<SleepStep>> \o ReleaseSteps(pairs)
                \o <<RetStep(OkResult)>>

\* PairEventIterator::post_delayed_async_sequence
post_delayed_async_sequence(pairs) ==
    IF FirstInvalid(pairs) # OkResult
       THEN <<RetStep(FirstInvalid(pairs))>>
       ELSE <<SpawnStep(PressSteps(pairs) \o <<SleepStep>>
                            \o ReleaseSteps(pairs)),
              RetStep(OkResult)>>

\* EventIterator::post: "for e in self { e.post()?; }"
EventIterator_post(evs) ==
    [i \in 1..Len(evs) |-> PostTry(evs[i])] \o <<RetStep(OkResult)>>

\* EventIterator::post_delayed: "for e in self { e.post()?; sleep(delay); }"
EventIterator_post_delayed(evs) ==
    [i \in 1..(2 * Len(evs)) |->
        IF i % 2 = 1 THEN PostTry(evs[(i + 1) \div 2]) ELSE SleepStep]
        \o <<RetStep(OkResult)>>

\* the vector "postable" of EventIterator::post_delayed_async: the events
\* before the first one that is not postable
PostablePrefix(evs) ==
    LET bad == {i \in 1..Len(evs) : postable_event(evs[i]) # OkResult}
    IN  IF bad = {} THEN evs
        ELSE SubSeq(evs, 1, (CHOOSE i \in bad : \A j \in bad : i <= j) - 1)

\* EventIterator::post_delayed_async: the closure posting the postable
\* prefix is spawned whatever res is, then res is returned
EventIterator_post_delayed_async(evs) ==
    LET pre == PostablePrefix(evs)
        res == IF Len(pre) = Len(evs) THEN OkResult
               ELSE postable_event(evs[Len(pre) + 1])
    IN  <<SpawnStep([i \in 1..(2 * Len(pre)) |->
                        IF i % 2 = 1 THEN PostExpect(pre[(i + 1) \div 2])
                                     ELSE SleepStep]),
          RetStep(res)>>


(* --------------------------- posting inputs ---------------------------- *)

KeyPress(key) == HookEvent("KeyPressed", key)
KeyRelease(key) == HookEvent("KeyReleased", key)

\* one event of every kind
EventInputs ==
    {EnabledEvent, DisabledEvent}
        \cup {HookEvent(EventKinds[i], 1) : i \in 3..Len(EventKinds)}

\* two postable pairs, and pairs whose press, release or both are control
\* events (EventPair::from((HookEvent, HookEvent)) builds any pair)
G1 == EventPair(KeyPress(1), KeyRelease(1))
G2 == EventPair(KeyPress(2), KeyRelease(2))
BadPress == EventPair(EnabledEvent, KeyRelease(1))
BadRelease == EventPair(KeyPress(2), DisabledEvent)
BothBad == EventPair(DisabledEvent, EnabledEvent)

PairInputs == {G1, BadPress, BadRelease, BothBad}

SeqInputs ==
    {<<>>, <<G1>>, <<BadPress>>, <<BadRelease>>,
     <<G1, G2>>, <<G2, G1>>, <<G1, BadRelease>>, <<G1, BadPress>>,
     <<BadRelease, G1>>, <<BadPress, G2>>, <<BadRelease, BadPress>>,
     <<G1, G2, G1>>, <<G1, G2, BadRelease>>, <<G1, BothBad, G2>>}

\* sequences of events for the EventIterator functions
EventSeqInputs ==
    {<<>>, <<KeyPress(1)>>, <<EnabledEvent>>,
     <<KeyPress(1), KeyRelease(1)>>, <<KeyPress(1), DisabledEvent>>,
     <<DisabledEvent, KeyPress(1)>>,
     <<KeyPress(1), KeyPress(2), EnabledEvent>>}

PairOps ==
    {"EventPair::post", "EventPair::post_delayed",
     "EventPair::post_delayed_async"}
SeqOps ==
    {"post_sequence", "post_delayed_sequence", "post_delayed_async_sequence"}
EventIterOps ==
    {"EventIterator::post", "EventIterator::post_delayed",
     "EventIterator::post_delayed_async"}

\* the posting calls a client can make
CallInputs ==
    {[op |-> "post_event", input |-> e] : e \in EventInputs}
        \cup {[op |-> o, input |-> p] : o \in PairOps, p \in PairInputs}
        \cup {[op |-> o, input |-> q] : o \in SeqOps, q \in SeqInputs}
        \cup {[op |-> o, input |-> q] : o \in EventIterOps,
                                        q \in EventSeqInputs}

\* the steps of the call
Program(op, input) ==
    CASE op = "post_event" -> post_event(input)
      [] op = "EventPair::post" -> EventPair_post(input)
      [] op = "EventPair::post_delayed" -> EventPair_post_delayed(input)
      [] op = "EventPair::post_delayed_async" ->
            EventPair_post_delayed_async(input)
      [] op = "post_sequence" -> post_sequence(input)
      [] op = "post_delayed_sequence" -> post_delayed_sequence(input)
      [] op = "post_delayed_async_sequence" ->
            post_delayed_async_sequence(input)
      [] op = "EventIterator::post" -> EventIterator_post(input)
      [] op = "EventIterator::post_delayed" ->
            EventIterator_post_delayed(input)
      [] op = "EventIterator::post_delayed_async" ->
            EventIterator_post_delayed_async(input)

(* --------------------------- posting actions --------------------------- *)

\* a client calls one of the posting functions
PostCall(c) ==
    /\ Idle(c)
    /\ Len(calls) < MaxCalls
    /\ \E ci \in CallInputs :
          /\ calls' = Append(calls, [op |-> ci.op, input |-> ci.input,
                                     res |-> "pending"])
          /\ prog' = [prog EXCEPT ![c] = Program(ci.op, ci.input)]
    /\ callOf' = [callOf EXCEPT ![c] = Len(calls) + 1]
    /\ ppc' = [ppc EXCEPT ![c] = "run"]
    /\ UNCHANGED <<bridgeVars, lifeVars,
                   SYNTHETIC, POST_MUTEX, posted, wpc, wprog>>
    /\ UNCHANGED extVars

\* mutant: native::post_event without POST_MUTEX
ClientPostEventNoLock(c) ==
    /\ ppc[c] = "run"
    /\ Head(prog[c]).i = "post"
    /\ postable_event(Head(prog[c]).ev) = OkResult
    /\ POST_MUTEX' = TRUE
    /\ SYNTHETIC' = NativeType(Head(prog[c]).ev.kind)
    /\ ppc' = [ppc EXCEPT ![c] = "locked"]
    /\ UNCHANGED <<bridgeVars, lifeVars, calls, prog, callOf, posted, wpc,
                   wprog>>
    /\ UNCHANGED extVars

\* global::post_event on the client's thread: postable_event, and for a
\* postable event native::post_event up to the store into SYNTHETIC, made with
\* POST_MUTEX locked. An event that is not postable ends the call with the
\* error (or with a panic, under expect).
ClientPostEvent(c) ==
    /\ ppc[c] = "run"
    /\ Head(prog[c]).i = "post"
    /\ LET st == Head(prog[c]) IN
       IF postable_event(st.ev) = OkResult
          THEN /\ ~POST_MUTEX
               /\ POST_MUTEX' = TRUE
               /\ SYNTHETIC' = NativeType(st.ev.kind)
               /\ ppc' = [ppc EXCEPT ![c] = "locked"]
               /\ UNCHANGED <<calls, prog, callOf>>
          ELSE /\ calls' = [calls EXCEPT ![callOf[c]].res =
                               IF st.chk = "try" THEN postable_event(st.ev)
                                                 ELSE "panic"]
               /\ prog' = [prog EXCEPT ![c] = <<>>]
               /\ ppc' = [ppc EXCEPT ![c] = "idle"]
               /\ callOf' = [callOf EXCEPT ![c] = 0]
               /\ UNCHANGED <<SYNTHETIC, POST_MUTEX>>
    /\ UNCHANGED <<bridgeVars, lifeVars,
                   posted, wpc, wprog>>
    /\ UNCHANGED extVars

\* native::post_event from the store on: ffi::hook_post_event, then the guard
\* is dropped
ClientPostNative(c) ==
    /\ ppc[c] = "locked"
    /\ posted' = Append(posted, [call |-> callOf[c], ev |-> Head(prog[c]).ev])
    /\ POST_MUTEX' = FALSE
    /\ prog' = [prog EXCEPT ![c] = Tail(@)]
    /\ ppc' = [ppc EXCEPT ![c] = "run"]
    /\ UNCHANGED <<bridgeVars, lifeVars,
                   SYNTHETIC, calls, callOf, wpc, wprog>>
    /\ UNCHANGED extVars

\* sleep(delay) on the client's thread
ClientSleep(c) ==
    /\ ppc[c] = "run"
    /\ Head(prog[c]).i = "sleep"
    /\ prog' = [prog EXCEPT ![c] = Tail(@)]
    /\ UNCHANGED <<bridgeVars, lifeVars,
                   SYNTHETIC, POST_MUTEX, posted, calls, callOf,
                   ppc, wpc, wprog>>
    /\ UNCHANGED extVars

\* std::thread::spawn of the background closure
ClientSpawn(c) ==
    /\ ppc[c] = "run"
    /\ Head(prog[c]).i = "spawn"
    /\ wpc' = [wpc EXCEPT ![callOf[c]] = "run"]
    /\ wprog' = [wprog EXCEPT ![callOf[c]] = Head(prog[c]).sub]
    /\ prog' = [prog EXCEPT ![c] = Tail(@)]
    /\ UNCHANGED <<bridgeVars, lifeVars,
                   SYNTHETIC, POST_MUTEX, posted, calls, callOf,
                   ppc>>
    /\ UNCHANGED extVars

\* the posting call returns
ClientReturn(c) ==
    /\ ppc[c] = "run"
    /\ Head(prog[c]).i = "ret"
    /\ calls' = [calls EXCEPT ![callOf[c]].res = Head(prog[c]).val]
    /\ prog' = [prog EXCEPT ![c] = <<>>]
    /\ ppc' = [ppc EXCEPT ![c] = "idle"]
    /\ callOf' = [callOf EXCEPT ![c] = 0]
    /\ UNCHANGED <<bridgeVars, lifeVars,
                   SYNTHETIC, POST_MUTEX, posted, wpc, wprog>>
    /\ UNCHANGED extVars

\* global::post_event on the background thread of call n
WorkerPostEvent(n) ==
    /\ wpc[n] = "run"
    /\ wprog[n] # <<>>
    /\ Head(wprog[n]).i = "post"
    /\ LET st == Head(wprog[n]) IN
       IF postable_event(st.ev) = OkResult
          THEN /\ ~POST_MUTEX
               /\ POST_MUTEX' = TRUE
               /\ SYNTHETIC' = NativeType(st.ev.kind)
               /\ wpc' = [wpc EXCEPT ![n] = "locked"]
               /\ UNCHANGED wprog
          ELSE /\ wpc' = [wpc EXCEPT ![n] = "panicked"]
               /\ wprog' = [wprog EXCEPT ![n] = <<>>]
               /\ UNCHANGED <<SYNTHETIC, POST_MUTEX>>
    /\ UNCHANGED <<bridgeVars, lifeVars,
                   posted, calls, prog, callOf, ppc>>
    /\ UNCHANGED extVars

WorkerPostNative(n) ==
    /\ wpc[n] = "locked"
    /\ posted' = Append(posted, [call |-> n, ev |-> Head(wprog[n]).ev])
    /\ POST_MUTEX' = FALSE
    /\ wprog' = [wprog EXCEPT ![n] = Tail(@)]
    /\ wpc' = [wpc EXCEPT ![n] = "run"]
    /\ UNCHANGED <<bridgeVars, lifeVars,
                   SYNTHETIC, calls, prog, callOf, ppc>>
    /\ UNCHANGED extVars

\* sleep(delay) on the background thread
WorkerSleep(n) ==
    /\ wpc[n] = "run"
    /\ wprog[n] # <<>>
    /\ Head(wprog[n]).i = "sleep"
    /\ wprog' = [wprog EXCEPT ![n] = Tail(@)]
    /\ UNCHANGED <<bridgeVars, lifeVars,
                   SYNTHETIC, POST_MUTEX, posted, calls, prog,
                   callOf, ppc, wpc>>
    /\ UNCHANGED extVars

\* the closure ends and with it the background thread
WorkerEnd(n) ==
    /\ wpc[n] = "run"
    /\ wprog[n] = <<>>
    /\ wpc' = [wpc EXCEPT ![n] = "done"]
    /\ UNCHANGED <<bridgeVars, lifeVars,
                   SYNTHETIC, POST_MUTEX, posted, calls, prog,
                   callOf, ppc, wprog>>
    /\ UNCHANGED extVars

NextPost ==
    \/ \E c \in Clients :
          \/ PostCall(c)
          \/ ClientPostEvent(c)
          \/ ClientPostNative(c)
          \/ ClientSleep(c)
          \/ ClientSpawn(c)
          \/ ClientReturn(c)
    \/ \E n \in CallIds :
          \/ WorkerPostEvent(n)
          \/ WorkerPostNative(n)
          \/ WorkerSleep(n)
          \/ WorkerEnd(n)

\* the posting API on its own: the pipeline is not started
SpecPost == Init /\ [][NextPost]_vars


(* -------------------------- posting properties ------------------------- *)

IsControl(e) == e.kind \in ControlKinds
PostError == {Err("Enabled"), Err("Disabled")}

\* the events call n handed to the native post primitive, in order
PostedBy(n) ==
    LET own == SelectSeq(posted, LAMBDA x : x.call = n)
    IN  [i \in 1..Len(own) |-> own[i].ev]

IsPrefix(a, b) ==
    /\ Len(a) <= Len(b)
    /\ \A i \in 1..Len(a) : a[i] = b[i]

Presses(pairs) == [i \in 1..Len(pairs) |-> pairs[i].press]
Releases(pairs) == [i \in 1..Len(pairs) |-> pairs[i].release]

Returned(n) == calls[n].res # "pending"
\* call n returned and the thread it spawned, if any, ended
Finished(n) == Returned(n) /\ wpc[n] \in {"none", "done"}

\* C7: post_event of an Enabled or Disabled event returns the PostEventError
\* naming that kind, without a native post and without touching the SYNTHETIC
\* cell; of any other event it returns Ok after exactly one native post.
C7_PostEventControl ==
    /\ [](\A n \in 1..Len(calls) :
            calls[n].op = "post_event" =>
                LET e == calls[n].input IN
                IF IsControl(e)
                   THEN /\ PostedBy(n) = <<>>
                        /\ Returned(n) => calls[n].res = Err(e.kind)
                   ELSE /\ IsPrefix(PostedBy(n), <<e>>)
                        /\ Returned(n) =>
                              (calls[n].res = OkResult /\ PostedBy(n) = <<e>>))
    /\ [][\A c \in Clients :
            (/\ ClientPostEvent(c)
             /\ calls[callOf[c]].op = "post_event"
             /\ IsControl(calls[callOf[c]].input)) =>
                /\ UNCHANGED <<SYNTHETIC, POST_MUTEX, posted>>
                /\ calls'[callOf[c]].res =
                      Err(calls[callOf[c]].input.kind)]_vars

C7_Witness ==
    \E n \in 1..Len(calls) :
        /\ calls[n] = [op |-> "post_event", input |-> DisabledEvent,
                       res |-> Err("Disabled")]
        /\ posted = <<>>
        /\ SYNTHETIC = 0

\* C8: EventPair::post, post_delayed and post_delayed_async return the
\* PostEventError and post neither event (and spawn no thread) when the press
\* or the release event is Enabled or Disabled; otherwise they post the press
\* event and then the release event.
C8_PairAdmission ==
    \A n \in 1..Len(calls) :
        calls[n].op \in PairOps =>
            LET p == calls[n].input IN
            IF IsControl(p.press) \/ IsControl(p.release)
               THEN /\ PostedBy(n) = <<>>
                    /\ wpc[n] = "none"
                    /\ Returned(n) => calls[n].res \in PostError
               ELSE /\ IsPrefix(PostedBy(n), <<p.press, p.release>>)
                    /\ Returned(n) =>
                          (calls[n].res = OkResult /\ Len(PostedBy(n)) >= 1)
                    /\ Finished(n) => PostedBy(n) = <<p.press, p.release>>

C8_Witness ==
    \E n \in 1..Len(calls) :
        /\ calls[n] = [op |-> "EventPair::post_delayed_async",
                       input |-> BadRelease, res |-> Err("Disabled")]
        /\ posted = <<>>

\* C9: post_sequence, post_delayed_sequence and post_delayed_async_sequence
\* return the PostEventError and post no event of any pair when some pair
\* holds an Enabled or Disabled event.
C9_SequenceAdmission ==
    \A n \in 1..Len(calls) :
        (/\ calls[n].op \in SeqOps
         /\ \E i \in 1..Len(calls[n].input) :
               \/ IsControl(calls[n].input[i].press)
               \/ IsControl(calls[n].input[i].release)) =>
            /\ PostedBy(n) = <<>>
            /\ wpc[n] = "none"
            /\ Returned(n) => calls[n].res \in PostError

C9_Witness ==
    \E n \in 1..Len(calls) :
        /\ calls[n] = [op |-> "post_sequence",
                       input |-> <<G1, G2, BadRelease>>,
                       res |-> Err("Disabled")]
        /\ posted = <<>>

\* C10: post_sequence and post_delayed_sequence over postable pairs post
\* press_1..press_N in input order and then release_1..release_N in input
\* order.
C10_SequenceOrder ==
    \A n \in 1..Len(calls) :
        (/\ calls[n].op \in {"post_sequence", "post_delayed_sequence"}
         /\ \A i \in 1..Len(calls[n].input) :
               /\ ~IsControl(calls[n].input[i].press)
               /\ ~IsControl(calls[n].input[i].release)) =>
            LET want == Presses(calls[n].input) \o Releases(calls[n].input)
            IN  /\ IsPrefix(PostedBy(n), want)
                /\ Returned(n) =>
                      (calls[n].res = OkResult /\ PostedBy(n) = want)

C10_Witness ==
    \E n \in 1..Len(calls) :
        /\ calls[n] = [op |-> "post_delayed_sequence", input |-> <<G1, G2>>,
                       res |-> OkResult]
        /\ PostedBy(n) =
              <<KeyPress(1), KeyPress(2), KeyRelease(1), KeyRelease(2)>>

\* C11: EventIterator::post, post_delayed and post_delayed_async over a
\* sequence that holds an Enabled or Disabled event return a PostEventError
\* and hand nothing to the native post primitive, neither on the calling
\* thread nor on the spawned thread: the events before the control event are
\* not posted either.
C11_EventIteratorAdmission ==
    \A n \in 1..Len(calls) :
        (/\ calls[n].op \in EventIterOps
         /\ \E i \in 1..Len(calls[n].input) : IsControl(calls[n].input[i]))
            => /\ PostedBy(n) = <<>>
               /\ Returned(n) => calls[n].res \in PostError


(* ---------------- native bridge, registry and fan-out ------------------ *)

TargetOs == {"linux", "macos", "windows"}

\* EventMode::RESERVED.bits()
EventMode_RESERVED == 1

\* the reservation filters used: |_| true and |e| e.is_synthetic()
Filters == {"always", "is_synthetic"}

\* the HookFilter f called with event e
HookFilter(f, e) ==
    IF f = "always" THEN TRUE ELSE "SYNTHETIC" \in e.mode

\* set_mode: the native type compared with the SYNTHETIC cell. On windows a
\* drag event is compared as a move event.
SyntheticType(kind) ==
    IF target_os = "windows" /\ kind = "MouseDragged"
       THEN NativeType("MouseMoved")
       ELSE NativeType(kind)

\* mutant: a match leaves the SYNTHETIC cell as it is
set_mode_synthetic_NoClear(kind, key) ==
    /\ cb = NoCallback
    /\ installs > 0
    /\ LET hit == SYNTHETIC = SyntheticType(kind) IN
       /\ SYNTHETIC' = SYNTHETIC
       /\ cb' = [stage |-> "tagged",
                 ev |-> [kind |-> kind, key |-> key,
                         mode |-> IF hit THEN {"SYNTHETIC"} ELSE {},
                         seq |-> Len(sent) + 1],
                 slotAtStart |-> RESERVE_CALLBACK,
                 cands |-> {RESERVE_CALLBACK}]

\* The engine calls event_handler on the hook thread (cb records, besides the
\* event, the filter in the slot at that moment and those installed since):
\* from_native decodes the
\* record (its reserved field is 0, so the mode is DEFAULT) and set_mode
\* makes the compare_exchange of the SYNTHETIC cell against the event's type,
\* inserting EventMode::SYNTHETIC when it succeeds.
set_mode_synthetic(kind, key) ==
    /\ cb = NoCallback
    /\ installs > 0
    /\ LET hit == SYNTHETIC = SyntheticType(kind) IN
       /\ SYNTHETIC' = IF hit THEN 0 ELSE SYNTHETIC
       /\ cb' = [stage |-> "tagged",
                 ev |-> [kind |-> kind, key |-> key,
                         mode |-> IF hit THEN {"SYNTHETIC"} ELSE {},
                         seq |-> Len(sent) + 1],
                 slotAtStart |-> RESERVE_CALLBACK,
                 cands |-> {RESERVE_CALLBACK}]

\* mutant: only the native record is marked, the decoded event is not
set_mode_reserve_NativeOnly(e, f) ==
    IF f # "None" /\ HookFilter(f, e)
       THEN [ev |-> e, reserved |-> EventMode_RESERVED]
       ELSE [ev |-> e, reserved |-> 0]

\* mutant: the filter sees the event as it was before the synthetic tag
set_mode_reserve_BeforeTag(e, f) ==
    IF f # "None" /\ HookFilter(f, [e EXCEPT !.mode = {}])
       THEN [ev |-> [e EXCEPT !.mode = @ \cup {"RESERVED"}],
             reserved |-> EventMode_RESERVED]
       ELSE [ev |-> e, reserved |-> 0]

\* set_mode, second half, with RESERVE_CALLBACK locked: if a filter is
\* installed and returns true, insert EventMode::RESERVED and set the native
\* record's reserved field
set_mode_reserve(e, f) ==
    IF f # "None" /\ HookFilter(f, e)
       THEN [ev |-> [e EXCEPT !.mode = @ \cup {"RESERVED"}],
             reserved |-> EventMode_RESERVED]
       ELSE [ev |-> e, reserved |-> 0]

\* the engine dispatches EVENT_HOOK_ENABLED
DispatchEnabled(k) ==
    /\ hook[k] = "starting"
    /\ hook' = [hook EXCEPT ![k] = "running"]
    /\ set_mode_synthetic("Enabled", 0)
    /\ UNCHANGED <<RUNNING, ready, bus, installs, nCycles, ctl, ctlOwner, cur,
                   received, delivered, stopReq, inputs, pc, cyc, ret,
                   handles, POST_MUTEX, posted, calls, prog, callOf, ppc, wpc,
                   wprog, target_os, RESERVE_CALLBACK, HOOKS, HOOK_ID,
                   nDispatched, sent, seen, visited, fresh, removedAt>>
    /\ UNCHANGED extVars

\* the kinds of input events of the user
InputKinds == {"KeyPressed", "MouseDragged"}

\* the running engine dispatches an input event of the user
DispatchInput(k) ==
    /\ hook[k] = "running"
    /\ inputs < MaxInputs
    /\ inputs' = inputs + 1
    /\ \E kind \in InputKinds : set_mode_synthetic(kind, 1)
    /\ UNCHANGED <<RUNNING, ready, bus, installs, nCycles, ctl, ctlOwner, cur,
                   received, delivered, hook, stopReq, pc, cyc, ret, handles,
                   POST_MUTEX, posted, calls, prog, callOf, ppc, wpc, wprog,
                   target_os, RESERVE_CALLBACK, HOOKS, HOOK_ID, nDispatched,
                   sent, seen, visited, fresh, removedAt>>
    /\ UNCHANGED extVars

\* the running engine dispatches the next event it was handed by
\* ffi::hook_post_event: some time after the post, in the order of the posts
DispatchPosted(k) ==
    /\ hook[k] = "running"
    /\ nDispatched < Len(posted)
    /\ nDispatched' = nDispatched + 1
    /\ set_mode_synthetic(posted[nDispatched + 1].ev.kind,
                          posted[nDispatched + 1].ev.key)
    /\ UNCHANGED <<RUNNING, ready, bus, installs, nCycles, ctl, ctlOwner, cur,
                   received, delivered, hook, stopReq, inputs, pc, cyc, ret,
                   handles, POST_MUTEX, posted, calls, prog, callOf, ppc, wpc,
                   wprog, target_os, RESERVE_CALLBACK, HOOKS, HOOK_ID, sent,
                   seen, visited, fresh, removedAt>>
    /\ UNCHANGED extVars

\* the engine honours a stop request: it dispatches EVENT_HOOK_DISABLED as
\* its last event
DispatchDisabled(k) ==
    /\ hook[k] = "running"
    /\ stopReq
    /\ stopReq' = FALSE
    /\ hook' = [hook EXCEPT ![k] = "stopping"]
    /\ set_mode_synthetic("Disabled", 0)
    /\ UNCHANGED <<RUNNING, ready, bus, installs, nCycles, ctl, ctlOwner, cur,
                   received, delivered, inputs, pc, cyc, ret, handles,
                   POST_MUTEX, posted, calls, prog, callOf, ppc, wpc, wprog,
                   target_os, RESERVE_CALLBACK, HOOKS, HOOK_ID, nDispatched,
                   sent, seen, visited, fresh, removedAt>>
    /\ UNCHANGED extVars

\* the rest of event_handler: set_mode locks RESERVE_CALLBACK and applies the
\* filter, then the event is sent on the bus and the callback returns
EventHandlerSend(k) ==
    /\ cb # NoCallback
    /\ hook[k] \in {"running", "stopping"}
    /\ LET r == set_mode_reserve(cb.ev, RESERVE_CALLBACK) IN
       /\ event_handler(r.ev)
       /\ sent' = Append(sent, [ev |-> r.ev, reserved |-> r.reserved])
    /\ cb' = NoCallback
    /\ hook' = [hook EXCEPT ![k] = IF @ = "stopping" THEN "stopped" ELSE @]
    /\ UNCHANGED <<RUNNING, ready, installs, nCycles, ctl, ctlOwner, cur,
                   received, delivered, stopReq, inputs, pc, cyc, ret,
                   handles, postVars, target_os, RESERVE_CALLBACK, HOOKS,
                   HOOK_ID, nDispatched, seen, visited, fresh, removedAt>>
    /\ UNCHANGED extVars

\* a fan-out is in progress on some control thread
FanOutInProgress == \E k \in Cycles : ctl[k] = "fanout"

\* dispatch callbacks begun so far
CallbacksBegun == Len(sent) + (IF cb = NoCallback THEN 0 ELSE 1)

\* u128::wrapping_add
wrapping_add(x, y) == (x + y) % HookIdModulus

\* mutant: the counter is read but the new value is not stored
register_boxed_hook_NoStore ==
    /\ regBudget > 0
    /\ regBudget' = regBudget - 1
    /\ HOOK_ID' = HOOK_ID
    /\ LET id == wrapping_add(HOOK_ID, 1) IN
       /\ HOOKS' = HOOKS \cup {id}
       /\ fresh' = IF FanOutInProgress THEN fresh \cup {id} ELSE fresh
       /\ issued' = Append(issued, id)
       /\ regRet' = Returns(RegRet("register", id, "id"))
    /\ UNCHANGED <<visited, removedAt>>

\* register_boxed_hook: with HOOK_ID locked for the whole call (so calls do
\* not overlap) the counter is advanced by wrapping_add(1), the observer is
\* inserted under the new id and the id is returned
register_boxed_hook ==
    /\ regBudget > 0
    /\ regBudget' = regBudget - 1
    /\ HOOK_ID' = wrapping_add(HOOK_ID, 1)
    /\ HOOKS' = HOOKS \cup {HOOK_ID'}
    /\ fresh' = IF FanOutInProgress THEN fresh \cup {HOOK_ID'} ELSE fresh
    /\ issued' = Append(issued, HOOK_ID')
    /\ regRet' = Returns(RegRet("register", HOOK_ID', "id"))
    /\ UNCHANGED <<visited, removedAt>>

\* register_boxed_hook_with_id: HOOKS.insert(id, handler)
register_boxed_hook_with_id(id) ==
    /\ HOOKS' = HOOKS \cup {id}
    /\ fresh' = IF FanOutInProgress /\ id \notin HOOKS
                   THEN fresh \cup {id} ELSE fresh
    /\ visited' = visited
    /\ UNCHANGED <<HOOK_ID, issued, regBudget, regRet, removedAt>>

\* register_hook: register_boxed_hook(Box::new(handler))
register_hook(c) ==
    /\ Idle(c)
    /\ register_boxed_hook
    /\ UNCHANGED <<lifeVars, postVars, target_os, RESERVE_CALLBACK, cb,
                   nDispatched, sent, seen, hookObj, evalVars, faultVars, clockVars, lockVars>>

\* mutant: the entry stays in the registry
unregister_hook_Keep(c, id) ==
    /\ Idle(c)
    /\ id \in HOOKS
    /\ removedAt' = [removedAt EXCEPT ![id] = CallbacksBegun]
    /\ regRet' = Returns(RegRet("remove", id, "Some"))
    /\ UNCHANGED <<lifeVars, postVars, target_os, RESERVE_CALLBACK, HOOKS,
                   HOOK_ID, cb, nDispatched, sent, seen, visited, fresh,
                   issued, regBudget, hookObj, evalVars, faultVars, clockVars, lockVars>>

\* mutant: a call with an id that is not in the registry empties it
HOOKS_remove_Clear(id) ==
    /\ HOOKS' = IF id \in HOOKS THEN HOOKS \ {id} ELSE {}
    /\ removedAt' = IF id \in HOOKS
                       THEN [removedAt EXCEPT ![id] = CallbacksBegun]
                       ELSE removedAt
    /\ regRet' = Returns(RegRet("remove", id,
                              IF id \in HOOKS THEN "Some" ELSE "None"))

\* HOOKS.remove(&hook_id): the entry, if there is one, is taken out and
\* returned
HOOKS_remove(id) ==
    /\ HOOKS' = HOOKS \ {id}
    /\ removedAt' = IF id \in HOOKS
                       THEN [removedAt EXCEPT ![id] = CallbacksBegun]
                       ELSE removedAt
    /\ regRet' = Returns(RegRet("remove", id,
                              IF id \in HOOKS THEN "Some" ELSE "None"))

\* unregister_hook and drop_hook: HOOKS.remove(&hook_id); unregister_hook
\* returns the callback removed, drop_hook drops it
unregister_hook(c, id) ==
    /\ Idle(c)
    /\ HOOKS_remove(id)
    /\ UNCHANGED <<lifeVars, postVars, target_os, RESERVE_CALLBACK, HOOK_ID,
                   cb, nDispatched, sent, seen, visited, fresh, issued,
                   regBudget, hookObj, evalVars, faultVars, clockVars, lockVars>>

\* client c unregisters an observer that is registered
UnregisterRegistered(c) == \E id \in HOOKS : unregister_hook(c, id)

\* mutant: a filter already in the slot is taken out and the new one dropped
reserve_events_Take(c, f) ==
    /\ Idle(c)
    /\ target_os \in {"windows", "macos"}
    /\ RESERVE_CALLBACK' = IF RESERVE_CALLBACK = "None" THEN f ELSE "None"
    /\ cb' = IF cb = NoCallback THEN cb
             ELSE [cb EXCEPT !.cands = @ \cup {RESERVE_CALLBACK'}]
    /\ UNCHANGED <<lifeVars, postVars, target_os, HOOKS, HOOK_ID, nDispatched,
                   sent, seen, visited, fresh, removedAt>>
    /\ UNCHANGED extVars

\* reserve_events (windows and macos only): with RESERVE_CALLBACK locked the
\* new filter is swapped into the slot; the old one is dropped
reserve_events(c, f) ==
    /\ Idle(c)
    /\ target_os \in {"windows", "macos"}
    /\ RESERVE_CALLBACK' = f
    /\ cb' = IF cb = NoCallback THEN cb ELSE [cb EXCEPT !.cands = @ \cup {f}]
    /\ UNCHANGED <<lifeVars, postVars, target_os, HOOKS, HOOK_ID, nDispatched,
                   sent, seen, visited, fresh, removedAt>>
    /\ UNCHANGED extVars

\* the posting calls made while the pipeline runs
BridgeCallInputs ==
    {[op |-> "post_event", input |-> HookEvent("MouseMoved", 0)],
     [op |-> "EventPair::post", input |-> G1]}

\* a client calls post_event or EventPair::post
BridgePostCall(c) ==
    /\ Idle(c)
    /\ Cardinality({n \in 1..Len(calls) : calls[n].client = c}) < MaxPosts
    /\ \E ci \in BridgeCallInputs :
          /\ calls' = Append(calls, [op |-> ci.op, input |-> ci.input,
                                     res |-> "pending", client |-> c])
          /\ prog' = [prog EXCEPT ![c] = Program(ci.op, ci.input)]
    /\ callOf' = [callOf EXCEPT ![c] = Len(calls) + 1]
    /\ ppc' = [ppc EXCEPT ![c] = "run"]
    /\ UNCHANGED <<bridgeVars, lifeVars, SYNTHETIC, POST_MUTEX, posted, wpc,
                   wprog>>
    /\ UNCHANGED extVars

\* hook_start was called by t1 with the flag clear: control_thread_main has
\* installed the callback and spawned the hook thread, the engine is starting
\* and t1 waits on the condition variable
PipelineStarted ==
    /\ RUNNING = TRUE
    /\ ready = FALSE
    /\ bus = <<>>
    /\ installs = 1
    /\ nCycles = 1
    /\ ctl = [k \in Cycles |-> IF k = 1 THEN "recv" ELSE "none"]
    /\ ctlOwner = [k \in Cycles |-> IF k = 1 THEN "spawned" ELSE "none"]
    /\ cur = [k \in Cycles |-> NoEvent]
    /\ received = [k \in Cycles |-> {}]
    /\ delivered = [k \in Cycles |-> {}]
    /\ hook = [k \in Cycles |-> IF k = 1 THEN "starting" ELSE "none"]
    /\ stopReq = FALSE
    /\ inputs = 0
    /\ pc = [c \in Clients |-> IF c = "t1" THEN "hs_wait" ELSE "idle"]
    /\ cyc = [c \in Clients |-> IF c = "t1" THEN 1 ELSE 0]
    /\ ret = NoReturn
    /\ handles = {}
    /\ SYNTHETIC = 0
    /\ POST_MUTEX = FALSE
    /\ posted = <<>>
    /\ calls = <<>>
    /\ prog = [c \in Clients |-> <<>>]
    /\ callOf = [c \in Clients |-> 0]
    /\ ppc = [c \in Clients |-> "idle"]
    /\ wpc = [n \in CallIds |-> "none"]
    /\ wprog = [n \in CallIds |-> <<>>]
    /\ RESERVE_CALLBACK = "None"
    /\ cb = NoCallback
    /\ nDispatched = 0
    /\ sent = <<>>
    /\ seen = [id \in HookIds |-> <<>>]
    /\ visited = {}
    /\ fresh = {}
    /\ removedAt = [id \in HookIds |-> -1]
    /\ hookObj = [h \in HookObjs |-> NewHook]
    /\ regRet = Discarded
    /\ NoEval
    /\ NoPanic
    /\ NoClock
    /\ NoLocks

\* the record of the Enabled event of cycle 1 in sent
EnabledSent ==
    [ev |-> [kind |-> "Enabled", key |-> 0, mode |-> {}, seq |-> 1],
     reserved |-> 0]

\* One observer was registered, then t1 called hook_start and it returned
\* the handle: the engine runs, its Enabled event was received and fanned
\* out to the observer, the control thread waits for the next event.
PipelineAfterEnabled ==
    /\ RUNNING = TRUE
    /\ ready = FALSE
    /\ bus = <<>>
    /\ installs = 1
    /\ nCycles = 1
    /\ ctl = [k \in Cycles |-> IF k = 1 THEN "recv" ELSE "none"]
    /\ ctlOwner = [k \in Cycles |-> IF k = 1 THEN "spawned" ELSE "none"]
    /\ cur = [k \in Cycles |-> NoEvent]
    /\ received = [k \in Cycles |-> IF k = 1 THEN {"Enabled"} ELSE {}]
    /\ delivered = [k \in Cycles |-> IF k = 1 THEN {"Enabled"} ELSE {}]
    /\ hook = [k \in Cycles |-> IF k = 1 THEN "running" ELSE "none"]
    /\ stopReq = FALSE
    /\ inputs = 0
    /\ pc = [c \in Clients |-> "idle"]
    /\ cyc = [c \in Clients |-> 0]
    /\ ret = Return("hook_start", 1, "Some")
    /\ handles = {1}
    /\ SYNTHETIC = 0
    /\ POST_MUTEX = FALSE
    /\ posted = <<>>
    /\ calls = <<>>
    /\ prog = [c \in Clients |-> <<>>]
    /\ callOf = [c \in Clients |-> 0]
    /\ ppc = [c \in Clients |-> "idle"]
    /\ wpc = [n \in CallIds |-> "none"]
    /\ wprog = [n \in CallIds |-> <<>>]
    /\ RESERVE_CALLBACK = "None"
    /\ HOOKS = {1}
    /\ HOOK_ID = 1
    /\ cb = NoCallback
    /\ nDispatched = 0
    /\ sent = <<EnabledSent>>
    /\ seen = [id \in HookIds |-> IF id = 1 THEN <<1>> ELSE <<>>]
    /\ visited = {}
    /\ fresh = {}
    /\ removedAt = [id \in HookIds |-> -1]
    /\ RegistryAfter(1)
    /\ regBudget = MaxHooks - 1
    /\ NoEval
    /\ NoPanic
    /\ NoClock

\* the same, with the fan-out inside no callback
PipelineRunning == PipelineAfterEnabled /\ NoLocks

\* tagging differs between windows and the other targets only
InitTag == PipelineRunning /\ target_os \in {"linux", "windows"}

\* reserve_events exists on windows and macos only
InitReserve == PipelineRunning /\ target_os \in {"linux", "macos"}

\* no observer is registered yet
InitFanOut ==
    /\ PipelineStarted
    /\ target_os = "linux"
    /\ HOOKS = {}
    /\ HOOK_ID = 0
    /\ issued = <<>>
    /\ regBudget = MaxHooks

\* the steps of the control loop
NextControl ==
    \E k \in Cycles :
        \/ ControlRecv(k)
        \/ ControlInvoke(k)
        \/ ControlFanOut(k)

\* client c posts while the pipeline runs
Posting(c) ==
    \/ BridgePostCall(c)
    \/ ClientPostEvent(c)
    \/ ClientPostNative(c)
    \/ ClientReturn(c)

\* one client posts and the user makes input while the pipeline runs
NextTag ==
    \/ NextControl
    \/ Posting("t2")
    \/ \E k \in Cycles :
          \/ DispatchInput(k)
          \/ DispatchPosted(k)
          \/ EventHandlerSend(k)

\* one client installs reservation filters and the other posts while the
\* pipeline runs
NextReserve ==
    \/ NextControl
    \/ Posting("t2")
    \/ \E k \in Cycles :
          \/ DispatchPosted(k)
          \/ EventHandlerSend(k)
    \/ \E f \in Filters : reserve_events("t1", f)

\* the clients post concurrently
NextPosters == \E c \in Clients : Posting(c)

\* one client registers and unregisters observers from the start of the
\* pipeline on, the other stops it once its hook_start returned
NextFanOut ==
    \/ NextControl
    \/ \E k \in Cycles :
          \/ DispatchEnabled(k)
          \/ DispatchInput(k)
          \/ DispatchDisabled(k)
          \/ EventHandlerSend(k)
          \/ HookRunReturn(k)
          \/ ControlExit(k)
    \/ HookStartWoken("t1")
    \/ HookStop("t1")
    \/ register_hook("t2")
    \/ UnregisterRegistered("t2")

\* the native callback and the SYNTHETIC cell
SpecTag == InitTag /\ [][NextTag]_vars

\* the native callback and the reservation filter
SpecReserve == InitReserve /\ [][NextReserve]_vars

\* concurrent posts
SpecPosters == InitTag /\ [][NextPosters]_vars

\* the registry and the fan-out of the control thread
SpecFanOut == InitFanOut /\ [][NextFanOut]_vars


(* ------------------------- bridge properties --------------------------- *)

\* the events observer id was invoked with, in order
SeenEvents(id) == [i \in 1..Len(seen[id]) |-> sent[seen[id][i]].ev]

\* events the callback tagged SYNTHETIC so far
TaggedCount ==
    Cardinality({i \in 1..Len(sent) : "SYNTHETIC" \in sent[i].ev.mode})
        + (IF cb # NoCallback /\ "SYNTHETIC" \in cb.ev.mode THEN 1 ELSE 0)

\* stores into the SYNTHETIC cell made by native::post_event so far
StoreCount == Len(posted) + (IF POST_MUTEX THEN 1 ELSE 0)

\* the pipeline is quiet: every posted event was dispatched, sent, received
\* and fanned out
Quiet ==
    /\ nDispatched = Len(posted)
    /\ cb = NoCallback
    /\ bus = <<>>
    /\ \A k \in Cycles : ctl[k] # "fanout"

\* C12: with one observer registered, the pipeline started and no other
\* input, EventPair::post of a keyboard pair makes the observer receive
\* exactly KeyPressed then KeyReleased, both SYNTHETIC, whenever the engine
\* calls the dispatch callback relative to the two posts.
C12_PairBothSynthetic ==
    (/\ Len(calls) = 1
     /\ calls[1].op = "EventPair::post"
     /\ calls[1].res = OkResult
     /\ inputs = 0
     /\ Quiet)
        => SeenEvents(1) =
              <<EnabledSent.ev,
                [kind |-> "KeyPressed", key |-> 1, mode |-> {"SYNTHETIC"},
                 seq |-> 2],
                [kind |-> "KeyReleased", key |-> 1, mode |-> {"SYNTHETIC"},
                 seq |-> 3]>>

\* the callback that begins in this step tags its event SYNTHETIC
TagsEvent ==
    /\ cb = NoCallback
    /\ cb' # NoCallback
    /\ "SYNTHETIC" \in cb'.ev.mode

\* C13 as stated: an event is tagged SYNTHETIC only if the cell held that
\* event's own native type when the callback handled it, the match clears the
\* cell to 0, and there are never more tagged events than post_event stores.
C13_TagOnlyOwnType ==
    /\ [][TagsEvent => /\ SYNTHETIC = NativeType(cb'.ev.kind)
                       /\ SYNTHETIC' = 0]_vars
    /\ [](TaggedCount <= StoreCount)

\* C13 amended: an event is tagged SYNTHETIC only if the cell held the type
\* set_mode compares it with (its own native type, or on windows the
\* MouseMoved type for a MouseDragged event), which is not 0; the match
\* clears the cell to 0, and there are never more tagged events than
\* post_event stores.
C13_TagOnlyComparedType ==
    /\ [][TagsEvent => /\ SYNTHETIC = SyntheticType(cb'.ev.kind)
                       /\ SYNTHETIC # 0
                       /\ SYNTHETIC' = 0]_vars
    /\ [](TaggedCount <= StoreCount)

\* a drag of the user was delivered with the SYNTHETIC flag on windows, after
\* a post of a move
C13_Witness ==
    /\ target_os = "windows"
    /\ \E id \in HookIds : \E i \in 1..Len(seen[id]) :
          /\ sent[seen[id][i]].ev.kind = "MouseDragged"
          /\ "SYNTHETIC" \in sent[seen[id][i]].ev.mode

\* the clients between the store into SYNTHETIC and the return of
\* ffi::hook_post_event
InNativePost == {c \in Clients : ppc[c] = "locked"}

\* the events the steps of a call hand to post_event, in order
ProgramEvents(op, input) ==
    LET steps == SelectSeq(Program(op, input), LAMBDA st : st.i = "post")
    IN  [i \in 1..Len(steps) |-> steps[i].ev]

\* the calls whose events the engine received, in the order of reception,
\* restricted to the calls of client c
ReceivedFrom(c) ==
    LET own == SelectSeq(posted, LAMBDA x : calls[x.call].client = c)
    IN  [i \in 1..Len(own) |-> own[i].call]

\* C17: with several threads in post_event, at most one is between its store
\* into the SYNTHETIC cell and the return of the native post, the cell then
\* holds that thread's type, and the engine receives the events of each
\* thread in the order that thread posted them.
C17_PostsSerialised ==
    /\ Cardinality(InNativePost) <= 1
    /\ \A c \in InNativePost :
          /\ POST_MUTEX
          /\ SYNTHETIC = NativeType(Head(prog[c]).ev.kind)
    /\ \A n \in 1..Len(calls) :
          IsPrefix(PostedBy(n), ProgramEvents(calls[n].op, calls[n].input))
    /\ \A c \in Clients : \A i, j \in 1..Len(ReceivedFrom(c)) :
          i <= j => ReceivedFrom(c)[i] <= ReceivedFrom(c)[j]

\* one thread is inside the native post while the other is about to post,
\* and the engine has received events of both
C17_Witness ==
    /\ \E c, d \in Clients :
          /\ ppc[c] = "locked"
          /\ ppc[d] = "run"
          /\ prog[d] # <<>>
          /\ Head(prog[d]).i = "post"
    /\ \A c \in Clients : ReceivedFrom(c) # <<>>

\* the callback in progress sends its event and returns in this step
SendsEvent == cb # NoCallback /\ cb' = NoCallback

\* the record of the event sent in this step
JustSent == sent'[Len(sent')]

\* what the control thread holds and what waits on the bus is what the
\* callback sent
DeliveredAsSent ==
    /\ \A i \in 1..Len(bus) : sent[bus[i].seq].ev = bus[i]
    /\ \A k \in Cycles : ctl[k] = "fanout" => sent[cur[k].seq].ev = cur[k]

\* C14: when a filter is installed and returns true for the event in the
\* callback, the decoded event gets RESERVED and the native record's reserved
\* field the RESERVED bit before the event is put on the bus, and observers
\* are invoked with the event as sent; with no filter installed, as always on
\* linux, the callback sets RESERVED on no event.
C14_ReservedByFilter ==
    /\ [][SendsEvent =>
            /\ bus' = Append(bus, JustSent.ev)
            /\ (RESERVE_CALLBACK # "None"
                   /\ HookFilter(RESERVE_CALLBACK, cb.ev))
                  => /\ JustSent.ev.mode = cb.ev.mode \cup {"RESERVED"}
                     /\ JustSent.reserved = EventMode_RESERVED
            /\ RESERVE_CALLBACK = "None"
                  => /\ "RESERVED" \notin JustSent.ev.mode
                     /\ JustSent.reserved = 0]_vars
    /\ [](DeliveredAsSent)
    /\ [](target_os = "linux" =>
            /\ RESERVE_CALLBACK = "None"
            /\ \A i \in 1..Len(sent) :
                  /\ "RESERVED" \notin sent[i].ev.mode
                  /\ sent[i].reserved = 0)

\* an observer was invoked with an event that the filter |_| true reserved
C14_Witness ==
    /\ RESERVE_CALLBACK = "always"
    /\ \E id \in HookIds : \E i \in 1..Len(seen[id]) :
          /\ "RESERVED" \in SeenEvents(id)[i].mode
          /\ "SYNTHETIC" \notin SeenEvents(id)[i].mode
          /\ sent[seen[id][i]].reserved = EventMode_RESERVED

\* C15: with the filter |e| e.is_synthetic() in the slot when the callback
\* applies it, an event sent with SYNTHETIC is sent with RESERVED too, the
\* filter sees the event with its tag decided, and the tag stays as decided.
C15_SyntheticIsReserved ==
    [][(SendsEvent /\ RESERVE_CALLBACK = "is_synthetic") =>
          /\ "SYNTHETIC" \in JustSent.ev.mode => "RESERVED" \in JustSent.ev.mode
          /\ ("SYNTHETIC" \in JustSent.ev.mode) = ("SYNTHETIC" \in cb.ev.mode)
          /\ bus' = Append(bus, JustSent.ev)]_vars

\* with |e| e.is_synthetic() installed an observer was invoked with a posted
\* event carrying both flags
C15_Witness ==
    /\ RESERVE_CALLBACK = "is_synthetic"
    /\ \E id \in HookIds : \E i \in 1..Len(seen[id]) :
          SeenEvents(id)[i].mode = {"SYNTHETIC", "RESERVED"}

\* C16: a filter in the slot is only ever replaced by a filter; an event
\* whose callback began with a filter installed is evaluated by exactly one
\* filter, the one in the slot then or one installed since, and by the one in
\* the slot then if no reserve_events ran during the callback.
C16_FilterReplacedAtomically ==
    /\ [][RESERVE_CALLBACK # "None" => RESERVE_CALLBACK' # "None"]_vars
    /\ [][(SendsEvent /\ cb.slotAtStart # "None") =>
            /\ \E f \in cb.cands \ {"None"} :
                  [ev |-> JustSent.ev, reserved |-> JustSent.reserved]
                      = set_mode_reserve(cb.ev, f)
            /\ cb.cands = {cb.slotAtStart} =>
                  [ev |-> JustSent.ev, reserved |-> JustSent.reserved]
                      = set_mode_reserve(cb.ev, cb.slotAtStart)]_vars
    /\ [](cb # NoCallback => RESERVE_CALLBACK \in cb.cands)

\* reserve_events replaced the filter while a callback that began under the
\* old filter had not yet applied it
C16_Witness ==
    /\ cb # NoCallback
    /\ cb.slotAtStart = "is_synthetic"
    /\ "SYNTHETIC" \notin cb.ev.mode
    /\ RESERVE_CALLBACK = "always"

\* how many times observer id was invoked with the event of sequence number q
Invocations(id, q) ==
    Cardinality({i \in 1..Len(seen[id]) : seen[id][i] = q})

\* C18: once unregister_hook(id) or drop_hook(id) returned, the observer is
\* out of the registry and is invoked with no event whose callback began
\* afterwards; the call removes that observer only.
C18_UnregisteredNotInvoked ==
    /\ [](\A id \in HookIds : removedAt[id] >= 0 =>
             /\ id \notin HOOKS
             /\ \A i \in 1..Len(seen[id]) : seen[id][i] <= removedAt[id])
    /\ [][\A id \in HookIds : removedAt'[id] # removedAt[id] =>
             HOOKS' = HOOKS \ {id}]_vars

\* observer 1 was invoked, then unregistered, and observer 2 was invoked
\* with an event whose callback began after that
C18_Witness ==
    /\ removedAt[1] >= 0
    /\ seen[1] # <<>>
    /\ 2 \in HOOKS
    /\ \E i \in 1..Len(seen[2]) : seen[2][i] > removedAt[1]

\* C19: when the fan-out of a dequeued event ends, and only then is the next
\* event received or the loop left, every observer that was in the registry
\* throughout has been invoked exactly once with that event; this holds for
\* Enabled and for the final Disabled.
C19_FanOutComplete ==
    /\ [][\A k \in Cycles : (ctl[k] = "fanout" /\ ctl'[k] # "fanout") =>
             /\ \A id \in HOOKS \ fresh : Invocations(id, cur[k].seq) = 1
             /\ bus' = bus
             /\ ctl'[k] = IF cur[k].kind = "Disabled" THEN "exit" ELSE "recv"
         ]_vars
    /\ [][(bus # <<>> /\ bus' = Tail(bus)) =>
             \A k \in Cycles : ctl[k] # "fanout"]_vars

\* the control loop was left and an observer registered before the Enabled
\* event was fanned out got every event from Enabled to Disabled
C19_Witness ==
    /\ ctl[1] = "done"
    /\ \E id \in HOOKS :
          /\ Len(seen[id]) = 2 + MaxInputs
          /\ SeenEvents(id)[1].kind = "Enabled"
          /\ SeenEvents(id)[Len(seen[id])].kind = "Disabled"

\* C20: each observer is invoked with events in the order in which the
\* dispatch callback handled them, and with no event twice.
C20_CallbackOrder ==
    \A id \in HookIds : \A i, j \in 1..Len(seen[id]) :
        i < j => seen[id][i] < seen[id][j]

\* two observers were each invoked with three events
C20_Witness ==
    /\ Len(seen[1]) >= 3
    /\ Len(seen[2]) >= 2

(* ------------------------------ the registry --------------------------- *)

\* the registry alone: no pipeline is started, up to MaxIssued ids are issued
InitIds == Constructed /\ regBudget = MaxIssued

NextIds ==
    \E c \in Clients :
        \/ register_hook(c)
        \/ \E id \in HookIds : unregister_hook(c, id)

SpecIds == InitIds /\ [][NextIds]_vars

\* a register_hook call returns in this step
IssuesId == issued' # issued

\* the ids issued follow each other by wrapping_add(1), starting with 1
IssuedInSequence ==
    /\ issued # <<>> => issued[1] = 1
    /\ \A i \in 1..(Len(issued) - 1) :
          issued[i + 1] = (issued[i] + 1) % HookIdModulus
    /\ HOOK_ID = IF issued = <<>> THEN 0 ELSE issued[Len(issued)]

\* C21 as stated: the ids register_hook returns are pairwise distinct, the
\* first is 1, each is one greater than the one before (modulo the width),
\* and no id is issued again after its hook was unregistered.
C21_IdsNeverRepeat ==
    /\ [](\A i, j \in 1..Len(issued) : i # j => issued[i] # issued[j])
    /\ [](IssuedInSequence)
    /\ [][IssuesId => removedAt[regRet'.id] < 0]_vars

\* C21 amended: the first id is 1, each is one greater than the one before
\* (modulo the width), two ids issued are equal exactly when a multiple of
\* the modulus of ids was issued in between, and an id whose hook was
\* unregistered is issued again only after the counter wrapped around.
C21_IdsRepeatOnlyAfterWrap ==
    /\ [](\A i, j \in 1..Len(issued) :
             (issued[i] = issued[j]) <=> ((j - i) % HookIdModulus = 0))
    /\ [](IssuedInSequence)
    /\ [][IssuesId =>
             /\ regRet' = RegRet("register", wrapping_add(HOOK_ID, 1), "id")
             /\ (removedAt[regRet'.id] >= 0 \/ regRet'.id \in HOOKS)
                   => Len(issued') > HookIdModulus]_vars

\* both threads registered hooks, the hook with id 1 was unregistered and
\* the counter wrapped around to 1
C21_Witness ==
    /\ Len(issued) > HookIdModulus
    /\ removedAt[1] >= 0
    /\ regRet = RegRet("register", 1, "id")

\* an unregister_hook or drop_hook call returns in this step
RemovesId ==
    /\ regRet'.op = "remove"
    /\ issued' = issued
    /\ <<regRet, HOOKS>>' # <<regRet, HOOKS>>

\* C22: unregister_hook(id) returns Some exactly when id is in the registry
\* and then removes that entry only; with an id that is not in the registry
\* (removed before, or never issued) it returns None and the registry stays
\* as it is. drop_hook does the same and returns nothing.
C22_UnregisterReturn ==
    [][RemovesId =>
          /\ (regRet'.val = "Some") <=> (regRet'.id \in HOOKS)
          /\ (regRet'.val = "None") <=> (regRet'.id \notin HOOKS)
          /\ HOOKS' = HOOKS \ {regRet'.id}
          /\ regRet'.id \notin HOOKS => HOOKS' = HOOKS
          /\ HOOK_ID' = HOOK_ID]_vars

\* with another hook registered, a second unregister_hook of an id returned
\* None
C22_Witness ==
    /\ regRet.op = "remove"
    /\ regRet.val = "None"
    /\ removedAt[regRet.id] >= 0
    /\ HOOKS # {}
    /\ Len(issued) < HookIdModulus

(* ----------------------- panicking observers --------------------------- *)

\* the running pipeline with observers that may panic; t1 holds the handle
InitPanic == PipelineRunning /\ target_os = "linux"

NextPanic ==
    \/ NextControl
    \/ ControlInvokePanic(1)
    \/ ControlExit(1)
    \/ DispatchInput(1)
    \/ DispatchDisabled(1)
    \/ EventHandlerSend(1)
    \/ HookRunReturn(1)
    \/ register_hook("t2")
    \/ HookStop("t2")
    \/ HandleWait("t1", 1)
    \/ HandleStop("t1", 1)
    \/ HandleJoin("t1")

SpecPanic == InitPanic /\ [][NextPanic]_vars

\* the control thread of cycle k completed, by return or by panic
ControlCompleted(k) == ctl[k] \in {"done", "panicked"}

\* C23: HookHandle::wait returns, with Ok or with Err, only after the hook
\* thread and the control thread have both completed, and returns Ok only if
\* the native run returned success and neither thread panicked.
C23_WaitJoinsBoth ==
    \A k \in Cycles :
        (ret.op = "wait" /\ ret.cycle = k) =>
            /\ ControlCompleted(k)
            /\ HookDone(k)
            /\ ret.val = OkResult => (hook[k] = "done_ok" /\ ctl[k] = "done")

\* C24: once an observer panicked during the fan-out the control thread is
\* over, no observer is invoked with any later event, and HookHandle::wait
\* returns Err(HookError::Unknown) with the payload: with the panic message
\* when the payload is a &'static str, with "no panic info" otherwise.
C24_ObserverPanic ==
    /\ [][\A k \in Cycles : ctl[k] = "panicked" =>
             /\ ctl'[k] = "panicked"
             /\ panicked'[k] = panicked[k]
             /\ seen' = seen
             /\ bus' = bus \/ Len(bus') > Len(bus)]_vars
    /\ [](\A k \in Cycles : (ctl[k] = "panicked") <=> (panicked[k] # "none"))
    /\ [](\A k \in Cycles :
             (ret.op = "wait" /\ ret.cycle = k /\ ctl[k] = "panicked") =>
                 ret.val = IF panicked[k] = "str" THEN UnknownMessage
                                                  ELSE UnknownNoInfo)

\* the first of two observers panicked with a message on an input event,
\* wait returned the error, and the Disabled event stays on the bus
C24_Witness ==
    /\ ret = Return("wait", 1, UnknownMessage)
    /\ Cardinality(HOOKS) = 2
    /\ bus # <<>>
    /\ \E id \in HOOKS : Len(seen[id]) < Len(sent) - Len(bus)

\* HookHandle::stop is called in this step: a handle is consumed by a call
\* that is not wait
CallsStop ==
    /\ handles' # handles
    /\ \A c \in Clients : pc'[c] = "wait_join" => pc[c] = "wait_join"

\* what HookHandle::wait returns for cycle k once it can return
WaitResult(k) ==
    IF ctl[k] = "panicked" THEN HookError_from_panic(panicked[k])
                           ELSE HookResult(k)

\* C25: HookHandle::stop calls the native stop first; if that fails stop
\* returns that error and joins no thread; if it succeeds stop goes on as
\* wait on the same handle and returns exactly what wait returns.
C25_StopThenWait ==
    /\ [][CallsStop =>
             \/ /\ OkResult \in NativeStopOutcomes
                /\ stopReq'
                /\ \E c \in Clients :
                      /\ Idle(c)
                      /\ pc' = [pc EXCEPT ![c] = "stop_join"]
                      /\ cyc'[c] \in handles
                /\ ret' = ret
             \/ /\ StopError \in NativeStopOutcomes
                /\ stopReq' = stopReq
                /\ pc' = pc
                /\ \E h \in handles : ret' = Return("stop", h, StopError)]_vars
    /\ [][\A c \in Clients : (pc[c] = "stop_join" /\ pc'[c] # "stop_join") =>
             /\ \/ ctl[cyc[c]] = "done" /\ HookDone(cyc[c])
                \/ ctl[cyc[c]] = "panicked"
             /\ ret' = Return("stop", cyc[c], WaitResult(cyc[c]))]_vars

\* the native stop failed because the engine had been stopped already, and
\* stop returned the error while the control thread was still in its loop
C25_Witness ==
    /\ ret = Return("stop", 1, StopError)
    /\ ctl[1] \in {"recv", "fanout"}
    /\ pc["t1"] = "idle"

(* ------------------------------ Hook objects --------------------------- *)

\* the variables the Hook methods leave alone
hookFrame ==
    <<lifeVars, postVars, target_os, RESERVE_CALLBACK, cb, nDispatched, sent,
      seen, evalVars, faultVars, clockVars, lockVars>>

\* the id of a Hook that has one
IdOf(h) == CHOOSE id \in hookObj[h].id : TRUE

\* Hook::register: if the Hook holds its callback it is taken out and
\* registered, under the Hook's id if it has one, under a new id otherwise
Hook_register(c, h) ==
    /\ Idle(c)
    /\ ~hookObj[h].dropped
    /\ IF hookObj[h].hook = "None"
          THEN UNCHANGED <<HOOKS, HOOK_ID, visited, fresh, removedAt, regVars>>
          ELSE IF hookObj[h].id = {}
          THEN /\ register_boxed_hook
               /\ hookObj' = [hookObj EXCEPT ![h] =
                                 [@ EXCEPT !.hook = "None", !.id = {HOOK_ID'}]]
          ELSE /\ register_boxed_hook_with_id(IdOf(h))
               /\ hookObj' = [hookObj EXCEPT ![h] = [@ EXCEPT !.hook = "None"]]
    /\ UNCHANGED hookFrame

\* mutant: the callback unregister_hook returns is dropped
Hook_unregister_Lose(c, h) ==
    /\ Idle(c)
    /\ ~hookObj[h].dropped
    /\ IF hookObj[h].id = {}
          THEN UNCHANGED <<HOOKS, removedAt, regRet, hookObj>>
          ELSE /\ HOOKS_remove(IdOf(h))
               /\ UNCHANGED hookObj
    /\ UNCHANGED <<HOOK_ID, visited, fresh, issued, regBudget>>
    /\ UNCHANGED hookFrame

\* Hook::unregister: if the Hook has an id, unregister_hook(id); the callback
\* it returns, if any, is put back into the Hook
Hook_unregister(c, h) ==
    /\ Idle(c)
    /\ ~hookObj[h].dropped
    /\ IF hookObj[h].id = {}
          THEN UNCHANGED <<HOOKS, removedAt, regRet, hookObj>>
          ELSE /\ HOOKS_remove(IdOf(h))
               /\ hookObj' = [hookObj EXCEPT ![h] =
                                 [@ EXCEPT !.hook = IF IdOf(h) \in HOOKS
                                                       THEN "Some" ELSE @]]
    /\ UNCHANGED <<HOOK_ID, visited, fresh, issued, regBudget>>
    /\ UNCHANGED hookFrame

\* mutant: the Hook goes away and its entry stays in the registry
Hook_drop_Forget(c, h) ==
    /\ Idle(c)
    /\ ~hookObj[h].dropped
    /\ hookObj' = [hookObj EXCEPT ![h] = [@ EXCEPT !.dropped = TRUE]]
    /\ UNCHANGED <<HOOKS, removedAt, regRet>>
    /\ UNCHANGED <<HOOK_ID, visited, fresh, issued, regBudget>>
    /\ UNCHANGED hookFrame

\* impl Drop for Hook: if the Hook has an id, drop_hook(id)
Hook_drop(c, h) ==
    /\ Idle(c)
    /\ ~hookObj[h].dropped
    /\ hookObj' = [hookObj EXCEPT ![h] = [@ EXCEPT !.dropped = TRUE]]
    /\ IF hookObj[h].id # {}
          THEN HOOKS_remove(IdOf(h))
          ELSE UNCHANGED <<HOOKS, removedAt, regRet>>
    /\ UNCHANGED <<HOOK_ID, visited, fresh, issued, regBudget>>
    /\ UNCHANGED hookFrame

\* the running pipeline with one observer registered by register_hook; the
\* Hook objects are built and not registered
InitHooks == PipelineRunning /\ target_os = "linux"

NextHooks ==
    \/ NextControl
    \/ DispatchInput(1)
    \/ EventHandlerSend(1)
    \/ \E h \in HookObjs :
          \/ Hook_register("t2", h)
          \/ Hook_unregister("t2", h)
          \/ Hook_drop("t2", h)

SpecHooks == InitHooks /\ [][NextHooks]_vars

\* Hook h is dropped in this step
DropsHook(h) == ~hookObj[h].dropped /\ hookObj'[h].dropped

\* Hook h is registered: its id is in the registry
Registered(h) == hookObj[h].id \cap HOOKS # {}

\* C26: dropping a Hook that is registered takes its entry, and no other, out
\* of the registry, and its callback is invoked with no event afterwards;
\* dropping a Hook that was never registered or is unregistered leaves the
\* registry as it is.
C26_DropUnregisters ==
    /\ [][\A h \in HookObjs : DropsHook(h) =>
             IF Registered(h) THEN /\ HOOKS' = HOOKS \ hookObj[h].id
                                   /\ HOOKS' # HOOKS
                              ELSE HOOKS' = HOOKS]_vars
    /\ [][\A h \in HookObjs : \A id \in hookObj[h].id : hookObj[h].dropped
             => /\ id \notin HOOKS'
                /\ seen'[id] = seen[id]]_vars

\* Hook h1 was registered and dropped before the input event was dispatched:
\* the other observer was invoked with the event, h1's callback was not
C26_Witness ==
    /\ hookObj["h1"].dropped
    /\ hookObj["h1"].id = {2}
    /\ removedAt[2] = 1
    /\ Len(seen[1]) = 2
    /\ seen[2] = <<>>
    /\ \A k \in Cycles : ctl[k] # "fanout"

(* --------------------- delayed posts and hook_stop --------------------- *)

\* a client calls EventPair::post_delayed_async while the pipeline runs
PairAsyncCall(c) ==
    /\ Idle(c)
    /\ Len(calls) < MaxCalls
    /\ \E p \in PairInputs :
          /\ calls' = Append(calls, [op |-> "EventPair::post_delayed_async",
                                     input |-> p, res |-> "pending"])
          /\ prog' = [prog EXCEPT ![c] = EventPair_post_delayed_async(p)]
    /\ callOf' = [callOf EXCEPT ![c] = Len(calls) + 1]
    /\ ppc' = [ppc EXCEPT ![c] = "run"]
    /\ UNCHANGED <<bridgeVars, lifeVars, SYNTHETIC, POST_MUTEX, posted, wpc,
                   wprog>>
    /\ UNCHANGED extVars

\* the steps of a client inside a posting call
ClientSteps(c) ==
    \/ ClientPostEvent(c)
    \/ ClientPostNative(c)
    \/ ClientSpawn(c)
    \/ ClientReturn(c)

\* the steps of the thread spawned by call n
WorkerSteps(n) ==
    \/ WorkerSleep(n)
    \/ WorkerPostEvent(n)
    \/ WorkerPostNative(n)
    \/ WorkerEnd(n)

InitAsync == PipelineRunning /\ target_os = "linux"

\* t2 posts pairs with a delay while t1 stops the hook and the pipeline
\* shuts down
NextAsync ==
    \/ PairAsyncCall("t2")
    \/ ClientSteps("t2")
    \/ \E n \in CallIds : WorkerSteps(n)
    \/ HookStop("t1")
    \/ DispatchDisabled(1)
    \/ EventHandlerSend(1)
    \/ HookRunReturn(1)
    \/ NextControl
    \/ ControlExit(1)

SpecAsync == InitAsync /\ [][NextAsync]_vars

\* Every thread that can run does run in the end: the posting client, and
\* the spawned threads, whose sleep ends and whose wait for POST_MUTEX ends
\* because the lock is held for one native post at a time.
FairAsync ==
    /\ SpecAsync
    /\ WF_vars(ClientSteps("t2"))
    /\ \A n \in CallIds : WF_vars(WorkerSteps(n))

\* call n is post_delayed_async on a postable pair
AsyncPostable(n) ==
    /\ n <= Len(calls)
    /\ calls[n].op = "EventPair::post_delayed_async"
    /\ EventPair_postable(calls[n].input) = OkResult

\* call n is such a call and has returned to its caller
AsyncReturned(n) == IF AsyncPostable(n) THEN Returned(n) ELSE FALSE

\* the press and the release event of call n were posted, in this order, and
\* the spawned thread has ended
AsyncComplete(n) ==
    IF AsyncPostable(n)
       THEN /\ PostedBy(n) = <<calls[n].input.press, calls[n].input.release>>
            /\ wpc[n] = "done"
       ELSE FALSE

\* C27: post_delayed_async on a postable pair has posted the press event when
\* it returns Ok; the release event is posted after it, once, by the spawned
\* thread, and that happens eventually, also when hook_stop was called
\* meanwhile.
C27_DelayedRelease ==
    \A n \in CallIds :
        /\ [](AsyncPostable(n) =>
                /\ IsPrefix(PostedBy(n),
                            <<calls[n].input.press, calls[n].input.release>>)
                /\ Returned(n) =>
                      /\ calls[n].res = OkResult
                      /\ PostedBy(n) # <<>>
                /\ Len(PostedBy(n)) = 2 => wpc[n] \in {"run", "done"})
        /\ AsyncReturned(n) ~> AsyncComplete(n)

\* hook_stop returned Ok and the engine stopped while the spawned thread had
\* not posted yet; afterwards it posted the release event and ended
C27_Witness ==
    /\ AsyncPostable(1)
    /\ wpc[1] = "done"
    /\ PostedBy(1) = <<calls[1].input.press, calls[1].input.release>>
    /\ ret = Return("hook_stop", 0, OkResult)
    /\ hook[1] = "done_ok"
    /\ ctl[1] = "done"

(* --------------- events in full and their native records --------------- *)

\* a value of an enum made by constant_to_enum!: a named variant, or the
\* escape variant Unknown(code) with code of the enum's $const_type, u32
Named(name) == [variant |-> name, code |-> 0]
Unknown(code) == [variant |-> "Unknown", code |-> code]

\* `as u16` and `as u8` of an unsigned value
as_u16(x) == x % (2 ^ 16)
as_u8(x) == x % (2 ^ 8)

\* the arms `$native_name => $rusty_name` of the four enums, in the order of
\* the macro's input, each as <<value of the native constant, variant>>;
\* the values are those of libuiohook's uiohook.h
MASK_NONE == 0
EventMask_arms ==
    << <<MASK_NONE, "None">>, <<1, "LeftShift">>, <<2, "LeftControl">>,
       <<4, "LeftMeta">>, <<8, "LeftAlt">>, <<16, "RightShift">>,
       <<32, "RightControl">>, <<64, "RightMeta">>, <<128, "RightAlt">>,
       <<17, "Shift">>, <<34, "Control">>, <<68, "Meta">>, <<136, "Alt">>,
       <<256, "LeftMouseButton">>, <<512, "RightMouseButton">>,
       <<1024, "MiddleMouseButton">>, <<2048, "ExtraMouseButton1">>,
       <<4096, "ExtraMouseButton2">>, <<8192, "NumLock">>,
       <<16384, "CapsLock">>, <<32768, "ScrollLock">> >>

\* of the keys, the first, two further ones and the last of the macro's input
Key_arms ==
    << <<1, "Escape">>, <<59, "F1">>, <<30, "A">>, <<0, "Undefined">> >>

MouseButton_arms ==
    << <<0, "NoButton">>, <<1, "Left">>, <<2, "Right">>, <<3, "Middle">>,
       <<4, "Extra1">>, <<5, "Extra2">> >>

MouseScrollKind_arms == << <<1, "Unit">>, <<2, "Block">> >>

MouseScrollDirection_arms == << <<3, "Vertical">>, <<4, "Horizontal">> >>

\* impl From<$required_const_type> for $enum_name: the first arm whose
\* constant equals the native value, else Unknown(native)
enum_from(arms, native) ==
    LET hits == {i \in 1..Len(arms) : arms[i][1] = native}
    IN  IF hits = {}
           THEN Unknown(native)
           ELSE Named(arms[CHOOSE i \in hits : \A j \in hits : i <= j][2])

\* impl From<$enum_name> for $required_const_type, before the `as` cast: the
\* constant of a named variant, the code of Unknown
enum_value(arms, rusty) ==
    IF rusty.variant = "Unknown"
       THEN rusty.code
       ELSE arms[CHOOSE i \in 1..Len(arms) : arms[i][2] = rusty.variant][1]

\* the cast to $required_const_type: u16 for masks, keys and buttons, u8 for
\* scroll kinds and directions
enum_into_u16(arms, rusty) == as_u16(enum_value(arms, rusty))
enum_into_u8(arms, rusty) == as_u8(enum_value(arms, rusty))

\* the payload structs made by map_native!, and the payload of the two
\* kinds that carry none
KeyboardEvent(keycode, rawcode, keychar) ==
    [keycode |-> keycode, rawcode |-> rawcode, keychar |-> keychar]
MouseEvent(button, clicks, x, y) ==
    [button |-> button, clicks |-> clicks, x |-> x, y |-> y]
MouseWheelEvent(clicks, x, y, kind, amount, rotation, direction) ==
    [clicks |-> clicks, x |-> x, y |-> y, kind |-> kind, amount |-> amount,
     rotation |-> rotation, direction |-> direction]
NoData == [empty |-> TRUE]

KeyboardKinds == {"KeyTyped", "KeyPressed", "KeyReleased"}
MouseKinds ==
    {"MouseClicked", "MousePressed", "MouseReleased", "MouseMoved",
     "MouseDragged"}

\* impl From<KeyboardEvent> for keyboard_event_data and its inverse, field
\* by field (map_native!)
keyboard_into(e) ==
    [keycode |-> enum_into_u16(Key_arms, e.keycode), rawcode |-> e.rawcode,
     keychar |-> e.keychar]
keyboard_from(n) ==
    KeyboardEvent(enum_from(Key_arms, n.keycode), n.rawcode, n.keychar)

mouse_into(e) ==
    [button |-> enum_into_u16(MouseButton_arms, e.button),
     clicks |-> e.clicks, x |-> e.x, y |-> e.y]
mouse_from(n) ==
    MouseEvent(enum_from(MouseButton_arms, n.button), n.clicks, n.x, n.y)

wheel_into(e) ==
    [clicks |-> e.clicks, x |-> e.x, y |-> e.y,
     type_ |-> enum_into_u8(MouseScrollKind_arms, e.kind),
     amount |-> e.amount, rotation |-> e.rotation,
     direction |-> enum_into_u8(MouseScrollDirection_arms, e.direction)]
wheel_from(n) ==
    MouseWheelEvent(n.clicks, n.x, n.y,
                    enum_from(MouseScrollKind_arms, n.type_), n.amount,
                    n.rotation,
                    enum_from(MouseScrollDirection_arms, n.direction))

\* EventMetaData and HookEvent with all their fields; the mode is the set of
\* the EventMode flags
EventMetaData(time, mask, mode) == [time |-> time, mask |-> mask, mode |-> mode]
FullEvent(meta, kind, data) == [metadata |-> meta, kind |-> kind, data |-> data]

\* native::into_native: the native type and union member of the kind, the
\* mask cast to u16, time and reserved zero
into_native(e) ==
    [type_ |-> NativeType(e.kind),
     data |-> CASE e.kind \in KeyboardKinds -> keyboard_into(e.data)
                [] e.kind \in MouseKinds -> mouse_into(e.data)
                [] e.kind = "MouseWheel" -> wheel_into(e.data)
                [] OTHER -> NoData,
     time |-> 0,
     mask |-> enum_into_u16(EventMask_arms, e.metadata.mask),
     reserved |-> 0]

\* EventMode::from_bits(reserved).unwrap_or(DEFAULT): the flags of the bits,
\* or no flag when a bit is set that is no flag
EventMode_from_bits(bits) ==
    CASE bits = 0 -> {}
      [] bits = 1 -> {"RESERVED"}
      [] bits = 2 -> {"SYNTHETIC"}
      [] bits = 3 -> {"RESERVED", "SYNTHETIC"}
      [] OTHER -> {}

\* native::from_native: base is the unix time of the system's start, which
\* set_timestamp adds to the native time
from_native(n, base) ==
    LET kind == EventKinds[n.type_]
    IN  FullEvent(
            EventMetaData(base + n.time, enum_from(EventMask_arms, n.mask),
                          EventMode_from_bits(n.reserved)),
            kind,
            CASE kind \in KeyboardKinds -> keyboard_from(n.data)
              [] kind \in MouseKinds -> mouse_from(n.data)
              [] kind = "MouseWheel" -> wheel_from(n.data)
              [] OTHER -> NoData)

\* the EventMetaData a builder starts from: the default time and mask, and
\* the SYNTHETIC mode
BuilderMeta == EventMetaData(0, Unknown(0), {"SYNTHETIC"})

\* HookEvent::keyboard(key)
HookEvent_keyboard(key) ==
    [meta |-> BuilderMeta,
     event |-> KeyboardEvent(key, enum_into_u16(Key_arms, key),
                             enum_into_u16(Key_arms, key))]

\* HookEvent::mouse(button)
HookEvent_mouse(button) ==
    [meta |-> BuilderMeta, event |-> MouseEvent(button, 0, 0, 0)]

\* with_mask of both builders, with_clicks of the mouse builder
with_mask(b, mask) == [b EXCEPT !.meta.mask = mask]
with_clicks(b, clicks) == [b EXCEPT !.event.clicks = clicks]

Max(a, b) == IF a >= b THEN a ELSE b

\* KeyboardEventBuilder::pair
KeyboardEventBuilder_pair(b) ==
    EventPair(FullEvent(b.meta, "KeyPressed", b.event),
              FullEvent(b.meta, "KeyReleased", b.event))

\* MouseEventBuilder::press
MouseEventBuilder_press(b) ==
    FullEvent(b.meta, "MousePressed", [b.event EXCEPT !.clicks = Max(@, 1)])

\* mutant: release takes the click count as configured
MouseEventBuilder_release_Raw(b) ==
    FullEvent(b.meta, "MouseReleased", b.event)

\* MouseEventBuilder::release
MouseEventBuilder_release(b) ==
    FullEvent(b.meta, "MouseReleased", [b.event EXCEPT !.clicks = Max(@, 1)])

\* mutant: the click count is raised to one in the press event only
MouseEventBuilder_pair_PressOnly(b) ==
    EventPair(FullEvent(b.meta, "MousePressed",
                        [b.event EXCEPT !.clicks = Max(@, 1)]),
              FullEvent(b.meta, "MouseReleased", b.event))

\* MouseEventBuilder::pair
MouseEventBuilder_pair(b) ==
    LET event == [b.event EXCEPT !.clicks = Max(@, 1)]
    IN  EventPair(FullEvent(b.meta, "MousePressed", event),
                  FullEvent(b.meta, "MouseReleased", event))

(* -------------------- conversions applied to inputs -------------------- *)

\* codes of Unknown: zero, codes of named constants, codes that are no
\* constant, and codes above the native field's width
MaskInputs ==
    {Named("None"), Named("Shift"), Named("ScrollLock"), Unknown(0),
     Unknown(3), Unknown(17), Unknown(65536), Unknown(65539)}
KeyInputs ==
    {Named("Escape"), Named("A"), Named("Undefined"), Unknown(7),
     Unknown(30), Unknown(65543)}
ButtonInputs ==
    {Named("NoButton"), Named("Left"), Named("Extra2"), Unknown(9),
     Unknown(1), Unknown(65545)}
ScrollKindInputs ==
    {Named("Unit"), Named("Block"), Unknown(0), Unknown(2), Unknown(256)}
ScrollDirectionInputs ==
    {Named("Vertical"), Named("Horizontal"), Unknown(7), Unknown(4),
     Unknown(263)}
ClickInputs == {0, 1, 2}
PositionInputs == {-1, 5}
\* the unix time of the system's start, as set_timestamp computed it
BaseTimes == {1000}

KeyboardEventInputs ==
    {FullEvent(EventMetaData(t, m, {}), k, KeyboardEvent(key, raw, 0)) :
        t \in {0}, m \in MaskInputs, k \in KeyboardKinds, key \in KeyInputs,
        raw \in {0, 65}}
MouseEventInputs ==
    {FullEvent(EventMetaData(0, m, {"SYNTHETIC"}), k,
               MouseEvent(b, c, x, 0)) :
        m \in {Named("None"), Unknown(0), Named("LeftMouseButton")},
        k \in MouseKinds, b \in ButtonInputs, c \in {0, 2},
        x \in PositionInputs}
MouseWheelEventInputs ==
    {FullEvent(EventMetaData(7, m, {}), "MouseWheel",
               MouseWheelEvent(1, 0, y, sk, 3, r, sd)) :
        m \in {Named("None"), Unknown(65536)}, y \in PositionInputs,
        sk \in ScrollKindInputs, r \in {-120, 120},
        sd \in ScrollDirectionInputs}
ControlEventInputs ==
    {FullEvent(EventMetaData(0, Unknown(0), {}), k, NoData) :
        k \in ControlKinds}
HookEventInputs ==
    KeyboardEventInputs \cup MouseEventInputs \cup MouseWheelEventInputs
        \cup ControlEventInputs

\* the builders an application can make: with and without with_mask and
\* with_clicks
KeyboardBuilderInputs ==
    {HookEvent_keyboard(key) : key \in KeyInputs}
        \cup {with_mask(HookEvent_keyboard(key), m) :
                 key \in KeyInputs, m \in MaskInputs}
MouseBuilderInputs ==
    {HookEvent_mouse(b) : b \in ButtonInputs}
        \cup {with_clicks(with_mask(HookEvent_mouse(b), m), c) :
                 b \in ButtonInputs, m \in MaskInputs, c \in ClickInputs}

\* KEY_SET, Key::iter().collect(): strum's EnumIter yields every named
\* variant and, for Unknown, the variant with the default code
KEY_SET == {Named(Key_arms[i][2]) : i \in 1..Len(Key_arms)} \cup {Unknown(0)}

\* HookEvent::as_keyboard is Some for the three keyboard kinds
as_keyboard(e) == e.kind \in KeyboardKinds

\* Hook::keys, the key_set the closure captures
Hook_keys_key_set(on, keys) ==
    IF on = "OneOf" THEN keys ELSE KEY_SET \ keys

\* Hook::keys, the closure: whether it calls the callback for event e
Hook_keys(on, keys, e) ==
    IF as_keyboard(e)
       THEN e.data.keycode \in Hook_keys_key_set(on, keys)
       ELSE FALSE

\* the key sets given to HookOn and the events the hooks are invoked with
HookOnInputs ==
    {[on |-> on, keys |-> S, event |-> e] :
        on \in {"OneOf", "NoneOf"},
        S \in SUBSET {Named("A"), Named("Escape"), Unknown(7)},
        e \in {FullEvent(EventMetaData(0, Named("None"), {}), k,
                         KeyboardEvent(key, 0, 0)) :
                  k \in KeyboardKinds, key \in KeyInputs}
               \cup {FullEvent(EventMetaData(0, Named("None"), {}),
                               "MousePressed",
                               MouseEvent(Named("Left"), 1, 0, 0)),
                     FullEvent(EventMetaData(0, Named("None"), {}),
                               "Enabled", NoData)}}

\* a function and the argument it is to be applied to
Apply(fn, arg) == [fn |-> fn, arg |-> arg]

ConvertInputs ==
    {Apply("round_trip", e) : e \in HookEventInputs}
        \cup {Apply("KeyboardEventBuilder::pair", b) :
                 b \in KeyboardBuilderInputs}
        \cup {Apply("MouseEventBuilder::pair", b) : b \in MouseBuilderInputs}
        \cup {Apply("MouseEventBuilder::press", b) : b \in MouseBuilderInputs}
        \cup {Apply("Hook::keys", h) : h \in HookOnInputs}
        \cup {Apply("MouseEventBuilder::release", b) :
                 b \in MouseBuilderInputs}

InitConvert ==
    /\ Statics
    /\ regBudget = MaxHooks
    /\ fnArg \in ConvertInputs
    /\ fnRes = <<>>

\* post_event encodes the event with into_native and the engine hands the
\* record to event_handler, which decodes it with from_native
ApplyRoundTrip ==
    /\ fnArg.fn = "round_trip"
    /\ fnRes = <<>>
    /\ \E base \in BaseTimes :
          fnRes' = <<from_native(into_native(fnArg.arg), base)>>
    /\ UNCHANGED <<lifeVars, postVars, bridgeVars, regVars, faultVars, clockVars, lockVars,
                 fnArg>>

ApplyKeyboardPair ==
    /\ fnArg.fn = "KeyboardEventBuilder::pair"
    /\ fnRes = <<>>
    /\ fnRes' = <<KeyboardEventBuilder_pair(fnArg.arg)>>
    /\ UNCHANGED <<lifeVars, postVars, bridgeVars, regVars, faultVars, clockVars, lockVars,
                 fnArg>>

ApplyMousePair ==
    /\ fnArg.fn = "MouseEventBuilder::pair"
    /\ fnRes = <<>>
    /\ fnRes' = <<MouseEventBuilder_pair(fnArg.arg)>>
    /\ UNCHANGED <<lifeVars, postVars, bridgeVars, regVars, faultVars, clockVars, lockVars,
                 fnArg>>

ApplyMousePress ==
    /\ fnArg.fn = "MouseEventBuilder::press"
    /\ fnRes = <<>>
    /\ fnRes' = <<MouseEventBuilder_press(fnArg.arg)>>
    /\ UNCHANGED <<lifeVars, postVars, bridgeVars, regVars, faultVars, clockVars, lockVars,
                 fnArg>>

ApplyMouseRelease ==
    /\ fnArg.fn = "MouseEventBuilder::release"
    /\ fnRes = <<>>
    /\ fnRes' = <<MouseEventBuilder_release(fnArg.arg)>>
    /\ UNCHANGED <<lifeVars, postVars, bridgeVars, regVars, faultVars, clockVars, lockVars,
                 fnArg>>

\* a hook made by Hook::keys is invoked with an event
ApplyHookKeys ==
    /\ fnArg.fn = "Hook::keys"
    /\ fnRes = <<>>
    /\ fnRes' = <<[invoked |->
                     Hook_keys(fnArg.arg.on, fnArg.arg.keys, fnArg.arg.event)]>>
    /\ UNCHANGED <<lifeVars, postVars, bridgeVars, regVars, faultVars, clockVars, lockVars,
                 fnArg>>

NextConvert ==
    \/ ApplyHookKeys
    \/ ApplyRoundTrip
    \/ ApplyKeyboardPair
    \/ ApplyMousePair
    \/ ApplyMousePress
    \/ ApplyMouseRelease

SpecConvert == InitConvert /\ [][NextConvert]_vars

\* r has the kind, the mask and the payload of e
SameEvent(e, r) ==
    /\ r.kind = e.kind
    /\ r.metadata.mask = e.metadata.mask
    /\ r.data = e.data

\* C28: decoding the native record of a postable event gives an event of the
\* same kind, mask and payload.
C28_RoundTrip ==
    (fnArg.fn = "round_trip" /\ fnRes # <<>>
        /\ postable_event(fnArg.arg) = OkResult)
        => SameEvent(fnArg.arg, fnRes[1])

\* C29: the events of a pair built by KeyboardEventBuilder::pair are of kind
\* KeyPressed and KeyReleased, those of MouseEventBuilder::pair of kind
\* MousePressed and MouseReleased; they carry the builder's key or button and
\* mask, and the release event has the payload and the metadata of the press
\* event.
C29_PairDiffersInTag ==
    (fnArg.fn \in {"KeyboardEventBuilder::pair", "MouseEventBuilder::pair"}
        /\ fnRes # <<>>) =>
        LET b == fnArg.arg
            p == fnRes[1]
        IN  /\ p.release.data = p.press.data
            /\ p.release.metadata = p.press.metadata
            /\ p.press.metadata = b.meta
            /\ fnArg.fn = "KeyboardEventBuilder::pair" =>
                  /\ p.press.kind = "KeyPressed"
                  /\ p.release.kind = "KeyReleased"
                  /\ p.press.data = b.event
            /\ fnArg.fn = "MouseEventBuilder::pair" =>
                  /\ p.press.kind = "MousePressed"
                  /\ p.release.kind = "MouseReleased"
                  /\ p.press.data.button = b.event.button
                  /\ p.press.data.clicks = Max(b.event.clicks, 1)

\* a mouse pair built without with_clicks: both events carry one click
C29_Witness ==
    /\ fnArg.fn = "MouseEventBuilder::pair"
    /\ fnArg.arg.event.clicks = 0
    /\ fnArg.arg.meta.mask = Named("Shift")
    /\ fnRes # <<>>
    /\ fnRes[1].release.data.clicks = 1
    /\ fnRes[1].release.kind = "MouseReleased"

(* ------------------------- hook_stop's effects ------------------------- *)

InitStop == PipelineRunning /\ target_os = "macos"

\* t1 installs a filter and stops the hook while t2 posts and the pipeline
\* runs and shuts down
NextStop ==
    \/ NextControl
    \/ Posting("t2")
    \/ DispatchPosted(1)
    \/ DispatchDisabled(1)
    \/ EventHandlerSend(1)
    \/ HookRunReturn(1)
    \/ ControlExit(1)
    \/ reserve_events("t1", "always")
    \/ HookStop("t1")

SpecStop == InitStop /\ [][NextStop]_vars

\* a step in which hook_stop is called and returns
ReturnsFromHookStop ==
    /\ ret'.op = "hook_stop"
    /\ ret' # ret \/ (stopReq' /\ ~stopReq)

\* C30: hook_stop calls the native stop and returns: the caller waits for no
\* thread, no thread moves in the step, and the RUNNING flag, the registry,
\* the bus, the reservation filter and the SYNTHETIC cell are as before.
\* RUNNING goes from true to false only in the step of a control thread that
\* has left its loop.
C30_StopFrame ==
    [][/\ ReturnsFromHookStop =>
            /\ UNCHANGED <<RUNNING, HOOKS, bus, RESERVE_CALLBACK, SYNTHETIC>>
            /\ UNCHANGED <<pc, handles, ctl, hook>>
       /\ (RUNNING /\ ~RUNNING') =>
            \E k \in Cycles : ctl[k] = "exit" /\ ctl'[k] = "done"]_vars

\* hook_stop has returned Ok while an event waits on the bus, a filter is
\* installed and a posted event is not yet dispatched: the threads still run
\* and RUNNING is set
C30_Witness ==
    /\ ret = Return("hook_stop", 0, OkResult)
    /\ stopReq
    /\ RUNNING
    /\ hook[1] = "running"
    /\ ctl[1] \in {"recv", "fanout"}
    /\ bus # <<>>
    /\ HOOKS # {}
    /\ RESERVE_CALLBACK # "None"
    /\ SYNTHETIC # 0

(* --------------------------- the unbounded bus ------------------------- *)

\* C31: a dispatch callback in progress can always send its event and return,
\* whatever the control thread is doing (receiving, inside an observer,
\* panicked or gone); the send appends the event to the bus and moves no
\* control thread, and the bus changes only by an append at its end or by
\* the removal of its head.
C31_SendNeverBlocks ==
    /\ [](\A k \in Cycles :
             (cb # NoCallback /\ hook[k] \in {"running", "stopping"})
                => ENABLED EventHandlerSend(k))
    /\ [][SendsEvent =>
             /\ bus' = Append(bus, JustSent.ev)
             /\ ctl' = ctl]_vars
    /\ [][bus' # bus =>
             \/ bus # <<>> /\ bus' = Tail(bus)
             \/ Len(bus') = Len(bus) + 1 /\ IsPrefix(bus, bus')]_vars

\* the control thread panicked in an observer and the callback still sent
\* the next event, which stays on the bus
C31_Witness ==
    /\ ctl[1] = "panicked"
    /\ cb = NoCallback
    /\ bus # <<>>
    /\ sent # <<>>
    /\ bus[Len(bus)] = sent[Len(sent)].ev

(* ---------------------------- event times ------------------------------ *)

\* the native times of the records (the system's uptime) and the readings of
\* the system clock (unix time), both in milliseconds
NativeTimes == {10, 25}
ClockReadings == {1000, 1040}

\* the engine calls event_handler on the hook thread of cycle k, and
\* from_native sets the time of the decoded event
DecodeTime(k) ==
    /\ hook[k] \in {"starting", "running"}
    /\ Len(decoded) < MaxDecoded
    /\ \E t \in NativeTimes, clock \in ClockReadings : set_timestamp(k, t, clock)
    /\ UNCHANGED <<lifeVars, postVars, bridgeVars, regVars, evalVars, faultVars,
                   lockVars>>

\* t1 starts and stops the pipeline again and again while events are decoded
NextClock ==
    \/ \E k \in Cycles :
          \/ ControlInit(k)
          \/ ControlRecv(k)
          \/ ControlFanOut(k)
          \/ ControlExit(k)
          \/ HookRunEnter(k)
          \/ NativeEnabled(k)
          \/ NativeDisabled(k)
          \/ HookRunReturn(k)
          \/ DecodeTime(k)
    \/ HookStart("t1")
    \/ HookStartLocked("t1")
    \/ HookStartWoken("t1")
    \/ HookStop("t1")

SpecClock == Init /\ [][NextClock]_vars

\* C32: the offset is set by the first decoded event, to the clock's reading
\* then minus that event's native time, and never changes afterwards, across
\* cycles too; the time of every decoded event is the offset plus its native
\* time, so the times of two decoded events differ as their native times do.
C32_TimeOffset ==
    /\ [](BASE_TIMESTAMP = {} <=> decoded = <<>>)
    /\ [](decoded # <<>> =>
             /\ BASE_TIMESTAMP = {decoded[1].clock - decoded[1].native}
             /\ \A i \in 1..Len(decoded), b \in BASE_TIMESTAMP :
                   decoded[i].time = b + decoded[i].native
             /\ \A i, j \in 1..Len(decoded) :
                   decoded[i].time - decoded[j].time
                       = decoded[i].native - decoded[j].native)
    /\ [][BASE_TIMESTAMP # {} => BASE_TIMESTAMP' = BASE_TIMESTAMP]_vars

\* an event of the second cycle was decoded at a later reading of the clock
\* and got its time from the offset of the first cycle
C32_Witness ==
    /\ Len(decoded) = 2
    /\ decoded[1].cycle = 1
    /\ decoded[2].cycle = 2
    /\ decoded[1].clock = 1000
    /\ decoded[2].clock = 1040
    /\ decoded[2].native = 25
    /\ decoded[2].time = 1015

(* --------------------------- click counts ------------------------------ *)

\* C33: the events made by MouseEventBuilder::press, ::release and ::pair
\* carry the click count max(c, 1), c being the builder's count: 0 from
\* HookEvent::mouse, or what with_clicks set.
C33_ClicksAtLeastOne ==
    fnRes # <<>> =>
        LET c == fnArg.arg.event.clicks
        IN  /\ fnArg.fn \in {"MouseEventBuilder::press",
                             "MouseEventBuilder::release"} =>
                  /\ fnRes[1].data.clicks = Max(c, 1)
                  /\ fnRes[1].data.clicks >= 1
            /\ fnArg.fn = "MouseEventBuilder::pair" =>
                  /\ fnRes[1].press.data.clicks = Max(c, 1)
                  /\ fnRes[1].release.data.clicks = Max(c, 1)

\* release on a builder without with_clicks gives one click, and on one with
\* two clicks configured it gives two
C33_Witness ==
    /\ fnArg.fn = "MouseEventBuilder::release"
    /\ fnRes # <<>>
    /\ \/ fnArg.arg.event.clicks = 0 /\ fnRes[1].data.clicks = 1
       \/ fnArg.arg.event.clicks = 2 /\ fnRes[1].data.clicks = 2

(* ----------------------------- key hooks ------------------------------- *)

\* C34: a hook made by Hook::keys calls its callback for no event that is not
\* a keyboard event; for a keyboard event it does with HookOn::OneOf(S)
\* exactly when the keycode is in S, and with HookOn::NoneOf(S) exactly when
\* the keycode is not in S.
C34_KeysFilter ==
    (fnArg.fn = "Hook::keys" /\ fnRes # <<>>) =>
        LET h == fnArg.arg
        IN  fnRes[1].invoked
               = /\ h.event.kind \in {"KeyTyped", "KeyPressed", "KeyReleased"}
                 /\ h.on = "OneOf" => h.event.data.keycode \in h.keys
                 /\ h.on = "NoneOf" => h.event.data.keycode \notin h.keys

(* ----------------------- the flag after the threads -------------------- *)

\* C35: whenever no control thread is alive (none was started, or the last
\* one returned after Disabled or after a failed native start, or it unwound
\* with an observer's panic), RUNNING is false, so that the next hook_start
\* or hook_start_blocking takes the branch that begins a cycle.
C35_FlagFollowsControl ==
    AliveControl = {} => ~RUNNING

(* ------------------------ one native run at a time --------------------- *)

\* hook threads that entered the native run and have not returned from it
InsideRun == {k \in Cycles : hook[k] \in {"starting", "running", "stopped"}}

\* C36: at most one hook thread is inside the native run at any time, and
\* the control thread of a cycle spawns its hook thread only when the hook
\* thread of every other cycle has returned from the native run.
C36_OneNativeRun ==
    /\ [](Cardinality(InsideRun) <= 1)
    /\ [][\A k \in Cycles :
            ControlInit(k) =>
                \A j \in Cycles \ {k} :
                    hook[j] \notin {"spawned", "starting", "running",
                                    "stopped"}]_vars

(* -------------------- the registry inside a callback ------------------- *)

\* the shards of HOOKS, scaled down from the four per processor, rounded up
\* to a power of two, that DashMap makes
Shards == 2
ShardIds == 0..(Shards - 1)

\* the variables of the control loop but ctl
loopFrame ==
    <<RUNNING, ready, bus, installs, nCycles, ctlOwner, cur, received,
      delivered, hook, stopReq, inputs, pc, cyc, ret, handles>>

\* the fan-out reaches an observer and enters its callback: while the
\* callback runs, the item "hook" of the iteration keeps the read lock of the
\* shard that holds the observer's key
ControlEnterCallback(k) ==
    /\ ctl[k] = "fanout"
    /\ inCallback = -1
    /\ \E id \in HOOKS \ visited :
          /\ seen' = [seen EXCEPT ![id] = Append(@, cur[k].seq)]
          /\ visited' = visited \cup {id}
          /\ inCallback' = id
    /\ UNCHANGED <<lifeVars, postVars, target_os, RESERVE_CALLBACK, HOOKS,
                   HOOK_ID, cb, nDispatched, sent, fresh, removedAt>>
    /\ UNCHANGED <<regVars, evalVars, faultVars, clockVars, shardOf>>

\* HOOKS.insert and HOOKS.remove take the write lock of the key's shard. The
\* lock is not reentrant: the control thread gets it only for a shard other
\* than the one whose read lock its iteration holds
WriteLockFree(id) == shardOf[id] # shardOf[inCallback]

\* the callback in progress calls unregister_hook or drop_hook with id, or
\* unregisters or drops the Hook registered under id: HOOKS.remove(&id)
\* either gets the shard's write lock, or waits for it for ever
CallbackUnregister(k, id) ==
    /\ ctl[k] = "fanout"
    /\ inCallback # -1
    /\ IF WriteLockFree(id)
          THEN /\ HOOKS_remove(id)
               /\ UNCHANGED ctl
          ELSE /\ ctl' = [ctl EXCEPT ![k] = "blocked"]
               /\ UNCHANGED <<HOOKS, removedAt, regRet>>
    /\ UNCHANGED <<loopFrame, postVars, target_os, RESERVE_CALLBACK, HOOK_ID,
                   cb, nDispatched, sent, seen, visited, fresh, issued,
                   regBudget, hookObj, evalVars, faultVars, clockVars,
                   lockVars>>

\* the callback in progress calls register_hook: the counter is advanced,
\* then HOOKS.insert either gets the write lock of the new key's shard, or
\* waits for it for ever, with HOOK_ID locked
CallbackRegister(k) ==
    /\ ctl[k] = "fanout"
    /\ inCallback # -1
    /\ regBudget > 0
    /\ IF WriteLockFree(wrapping_add(HOOK_ID, 1))
          THEN /\ register_boxed_hook
               /\ UNCHANGED ctl
          ELSE /\ regBudget' = regBudget - 1
               /\ HOOK_ID' = wrapping_add(HOOK_ID, 1)
               /\ ctl' = [ctl EXCEPT ![k] = "blocked"]
               /\ UNCHANGED <<HOOKS, fresh, issued, regRet, visited,
                              removedAt>>
    /\ UNCHANGED <<loopFrame, postVars, target_os, RESERVE_CALLBACK, cb,
                   nDispatched, sent, seen, hookObj, evalVars, faultVars,
                   clockVars, lockVars>>

\* the callback in progress returns to the iteration
CallbackReturn(k) ==
    /\ ctl[k] = "fanout"
    /\ inCallback # -1
    /\ inCallback' = -1
    /\ UNCHANGED <<lifeVars, postVars, bridgeVars, regVars, evalVars,
                   faultVars, clockVars, shardOf>>

\* the running pipeline with one observer; the keys of the registry hash to
\* any shards
InitReentrant ==
    /\ PipelineAfterEnabled
    /\ target_os = "linux"
    /\ inCallback = -1
    /\ shardOf \in [HookIds -> ShardIds]

\* the user makes input, a client registers observers and the callbacks of
\* the fan-out register and unregister observers
NextReentrant ==
    \/ ControlRecv(1)
    \/ ControlEnterCallback(1)
    \/ \E id \in HookIds : CallbackUnregister(1, id)
    \/ CallbackRegister(1)
    \/ CallbackReturn(1)
    \/ inCallback = -1 /\ ControlFanOut(1)
    \/ DispatchInput(1)
    \/ EventHandlerSend(1)
    \/ register_hook("t2")

SpecReentrant == InitReentrant /\ [][NextReentrant]_vars

\* C37: a callback of the fan-out that calls unregister_hook, drop_hook or
\* register_hook gets its call back: the control thread is never left
\* waiting for a lock of the registry inside a callback.
C37_CallbackReturns ==
    \A k \in Cycles : ctl[k] # "blocked"

(* ------------------------ the callback of a Hook ----------------------- *)

\* Hook h holds its callback
Held(h) == hookObj[h].hook = "Some"

\* C38: the callback of a Hook that was not dropped is in exactly one place,
\* held by the Hook or in the registry under the Hook's id; a step of
\* Hook::register or Hook::unregister moves it from one place to the other
\* and changes nothing else of the Hook; an id once assigned stays, and the
\* register that puts the callback back under it issues no new id.
C38_CallbackInOnePlace ==
    /\ [](\A h \in HookObjs :
             ~hookObj[h].dropped => (Held(h) # Registered(h)))
    /\ [][\A h \in HookObjs :
             (hookObj[h].id # {} /\ ~hookObj'[h].dropped) =>
                 /\ hookObj'[h].id = hookObj[h].id
                 /\ (Held(h) /\ ~Held(h)') =>
                       /\ HOOK_ID' = HOOK_ID
                       /\ issued' = issued
                       /\ HOOKS' = HOOKS \cup hookObj[h].id]_vars
    /\ [][\A c \in Clients, h \in HookObjs :
             /\ (Hook_register(c, h) /\ ~Held(h)) =>
                   UNCHANGED <<HOOKS, HOOK_ID, issued, hookObj>>
             /\ (Hook_unregister(c, h) /\ Held(h)) =>
                   UNCHANGED <<HOOKS, HOOK_ID, issued, hookObj>>]_vars

\* Hook h1 was registered under id 2, unregistered, and registered again: it
\* is in the registry under id 2, the last id issued
C38_Witness ==
    /\ hookObj["h1"] = [hook |-> "None", id |-> {2}, dropped |-> FALSE]
    /\ removedAt[2] >= 0
    /\ 2 \in HOOKS
    /\ HOOK_ID = 2
    /\ issued = <<1, 2>>

(* ------------------- posts made before the pipeline runs --------------- *)

\* the posting calls made while the pipeline is not running
StaleCallInputs ==
    {[op |-> "post_event", input |-> KeyPress(1)],
     [op |-> "post_event", input |-> HookEvent("MouseMoved", 0)]}

\* client c calls post_event while RUNNING is clear
StalePostCall(c) ==
    /\ Idle(c)
    /\ ~RUNNING
    /\ Len(calls) < MaxCalls
    /\ \E ci \in StaleCallInputs :
          /\ calls' = Append(calls, [op |-> ci.op, input |-> ci.input,
                                     res |-> "pending", client |-> c])
          /\ prog' = [prog EXCEPT ![c] = Program(ci.op, ci.input)]
    /\ callOf' = [callOf EXCEPT ![c] = Len(calls) + 1]
    /\ ppc' = [ppc EXCEPT ![c] = "run"]
    /\ UNCHANGED <<bridgeVars, lifeVars, SYNTHETIC, POST_MUTEX, posted, wpc,
                   wprog>>
    /\ UNCHANGED extVars

\* One thread registers an observer, posts, and starts and stops the
\* pipeline, each call after the other; it posts only while the pipeline is
\* not running. No hook is installed then, so the engine of a later cycle
\* never dispatches what was posted: every event of a cycle is the engine's
\* or the user's.
NextStale ==
    \/ StalePostCall("t1")
    \/ ClientPostEvent("t1")
    \/ ClientPostNative("t1")
    \/ ClientReturn("t1")
    \/ register_hook("t1")
    \/ HookStart("t1")
    \/ HookStartLocked("t1")
    \/ HookStartWoken("t1")
    \/ HookStop("t1")
    \/ \E k \in Cycles :
          \/ ControlInit(k)
          \/ ControlRecv(k)
          \/ ControlInvoke(k)
          \/ ControlFanOut(k)
          \/ ControlExit(k)
          \/ HookRunEnter(k)
          \/ DispatchEnabled(k)
          \/ DispatchInput(k)
          \/ DispatchDisabled(k)
          \/ EventHandlerSend(k)
          \/ HookRunReturn(k)

SpecStale == Init /\ [][NextStale]_vars

\* C39: in cycles during which no post_event call is made, no event an
\* observer is invoked with carries the SYNTHETIC flag, whatever was posted
\* while the pipeline was not running.
C39_NoStaleSynthetic ==
    \A id \in HookIds : \A i \in 1..Len(seen[id]) :
        "SYNTHETIC" \notin SeenEvents(id)[i].mode

====
